---- MODULE Spec2Model ----
(***************************************************************************)
(* SCIA, the SQL change impact analyzer: the hierarchical differ           *)
(* (scia/core/diff.py), the rule engine (scia/core/rules.py) and the risk  *)
(* aggregator (scia/core/risk.py), as analyze() chains them                *)
(* (scia/core/analyze.py) when no warehouse adapter is given.              *)
(***************************************************************************)
EXTENDS Integers, Sequences, FiniteSets, TLC

VARIABLES
    before,          \* analyze(before_schema, ...): List[TableSchema]
    after,           \* analyze(..., after_schema, ...): List[TableSchema]
    sql_signals,     \* None or the dict returned by extract_signals
    hashseed,        \* the process's string hash seed (set iteration order)
    pc,              \* position of the analyze() pipeline
    changes,         \* SchemaDiff.changes of diff_schemas(before, after)
    rpc,             \* position of the second call diff_schemas(after, before)
    rchanges,        \* SchemaDiff.changes of diff_schemas(after, before)
    findings,        \* the list returned by apply_rules
    error,           \* the exception that left the pipeline, or "none"
    raw_total,       \* the local raw_total of RiskAssessment.__init__
    risk_score,      \* RiskAssessment.risk_score
    classification,  \* RiskAssessment.classification
    adapter,         \* analyze(..., warehouse_adapter, ...): None or an adapter
    final_findings,  \* the local final_findings of analyze()
    call_depth,      \* the max_depth of the analyze_downstream call
    call_table,      \* the changed_table of the impact analysis calls
    ipc,             \* position of the analyze_downstream call
    fetched_views,   \* the local views: the dict returned by fetch_views
    bfs,             \* the locals of analyze_downstream's loop
    fetch_calls,     \* number of fetch_views calls made
    dependents,      \* the list analyze_downstream returned
    upc,             \* position of the analyze_upstream call
    upstream_deps,   \* the list analyze_upstream returned
    fpc,             \* position of the analyze_downstream_fks call
    downstream_fks,  \* the list analyze_downstream_fks returned
    ddl_base,        \* parse_ddl_to_schema(..., base_schemas, ...)
    ddl_text,        \* parse_ddl_to_schema(ddl_sql, ...)
    dpc,             \* position of the parse_ddl_to_schema call
    ddl_dict,        \* the local schemas: the dict of the tables so far
    ddl_stmts,       \* the statements the loop has not handled yet
    ddl_result,      \* the list parse_ddl_to_schema returned
    res_before,      \* resolve_input(before, ...): the input string
    res_after,       \* resolve_input(..., after, ...): the input string
    res_warehouse,   \* resolve_input(..., warehouse): None or a type
    res_pc,          \* position of the resolve_input call
    res_outcome,     \* what resolve_input returned or raised
    sf_conn,         \* SnowflakeAdapter.conn: None or a connection
    sf_opened,       \* number of connections snowflake.connector made
    sf_closes,       \* per connection, the number of its close() calls
    sf_calls,        \* number of adapter methods called so far
    sf_last,         \* the last adapter method called and its outcome
    args,            \* the argparse namespace given to run_analyze
    cli_pc,          \* position of run_analyze
    run_adapter,     \* the local warehouse_adapter of run_analyze
    connect_calls,   \* number of adapter.connect calls of the run
    close_calls,     \* number of adapter.close calls of the run
    cli_error,       \* the exception run_analyze caught, or "none"
    exit_code,       \* the code the process exits with, None while running
    config,          \* _execute_and_output(..., config)
    exec_adapter,    \* _execute_and_output(..., warehouse_adapter, ...)
    epc,             \* position of _execute_and_output
    exit_status,     \* the sys.exit code of _handle_exit_code, or None
    downstream_calls,\* number of analyze_downstream calls of analyze()
    cancel_requested \* a cancellation of the analysis has been requested

\* the state of analyze() up to the rules and the aggregation
analyze_vars == <<before, after, sql_signals, hashseed, pc, changes, rpc,
                  rchanges, findings, error, raw_total, risk_score,
                  classification>>

\* the state of the impact analysis
impact_vars == <<adapter, call_depth, call_table, ipc, fetched_views, bfs,
                 fetch_calls, dependents, upc, upstream_deps, fpc, downstream_fks>>

\* the state of the DDL parser
ddl_vars == <<ddl_base, ddl_text, dpc, ddl_dict, ddl_stmts, ddl_result>>

\* the state of the input resolver
resolve_vars == <<res_before, res_after, res_warehouse, res_pc, res_outcome>>

\* the state of a SnowflakeAdapter and of its connections
sf_vars == <<sf_conn, sf_opened, sf_closes, sf_calls, sf_last>>

\* the state of run_analyze
cli_vars == <<args, cli_pc, run_adapter, connect_calls, close_calls,
              cli_error, exit_code>>

\* the state of _execute_and_output
exec_vars == <<config, exec_adapter, epc, exit_status, downstream_calls,
               cancel_requested>>

\* the state of the command-line front end
front_vars == <<resolve_vars, sf_vars, cli_vars, exec_vars>>

vars == <<analyze_vars, final_findings, impact_vars, ddl_vars, front_vars>>

(***************************************************************************)
(* Bounds and the universe of names.                                       *)
(***************************************************************************)
\* the largest number of columns of the compared table
MaxCols == 2

\* Python's None, for Optional[str] fields and for absent objects
None == "None"
NoneObj == [none |-> TRUE]

DataTypes == {"INT", "STRING"}
HashSeeds == {0, 1}

\* str.upper() on the names of the universe
Upper(s) ==
    CASE s = "id" -> "ID"
      [] s = "amt" -> "AMT"
      [] s = "s1" -> "S1"
      [] s = "t1" -> "T1"
      [] s = "v1" -> "V1"
      [] s = "c" -> "C"
      [] OTHER -> s

\* str.lower() on the change types and on the file extensions
Lower(s) ==
    CASE s = "REMOVED" -> "removed"
      [] s = "TYPE_CHANGED" -> "type_changed"
      [] s = "JSON" -> "json"
      [] s = "SQL" -> "sql"
      [] OTHER -> s

\* the position of a name in the reference order of the universe
NameRank(s) ==
    CASE s = "S1" -> 1
      [] s = "S2" -> 2
      [] s = "T1" -> 3
      [] s = "T2" -> 4
      [] s = "AMT" -> 5
      [] s = "ID" -> 6
      [] s = "amt" -> 7
      [] s = "id" -> 8
      [] s = "PUBLIC" -> 9
      [] s = "C" -> 10
      [] s = "VARCHAR" -> 11
      [] s = "" -> 12

(***************************************************************************)
(* scia/models/schema.py                                                   *)
(***************************************************************************)
ColumnSchema(schema_name, table_name, column_name, data_type, is_nullable, ordinal_position) ==
    [database_name |-> None,
     schema_name |-> schema_name,
     table_name |-> table_name,
     column_name |-> column_name,
     data_type |-> data_type,
     is_nullable |-> is_nullable,
     ordinal_position |-> ordinal_position]

TableSchema(schema_name, table_name, columns) ==
    [database_name |-> None,
     schema_name |-> schema_name,
     table_name |-> table_name,
     columns |-> columns]

(***************************************************************************)
(* The inputs: schema snapshots as a JSON file or a warehouse delivers     *)
(* them, with pairwise distinct table keys and column names.  S1.T1 is the *)
(* table whose columns vary; S1.T2 and S2.T1 come and go as a whole.       *)
(***************************************************************************)
ColumnSpecs ==
    {[column_name |-> "id", data_type |-> t, is_nullable |-> n] :
        t \in DataTypes, n \in BOOLEAN}
    \cup {[column_name |-> c, data_type |-> "INT", is_nullable |-> TRUE] :
        c \in {"ID", "amt"}}

ColumnLists ==
    UNION {{q \in [1..n -> ColumnSpecs] :
              \A i, j \in 1..n :
                 i < j => NameRank(q[i].column_name) < NameRank(q[j].column_name)} :
           n \in 0..MaxCols}

MakeTable(schema_name, table_name, specs) ==
    TableSchema(schema_name, table_name,
        [i \in 1..Len(specs) |->
            ColumnSchema(schema_name, table_name, specs[i].column_name,
                         specs[i].data_type, specs[i].is_nullable, i)])

AmtOnly == <<[column_name |-> "amt", data_type |-> "INT", is_nullable |-> TRUE]>>

Snapshots ==
    {main \o t2 \o s2 :
        main \in {<<>>} \cup {<<MakeTable("S1", "T1", q)>> : q \in ColumnLists},
        t2 \in {<<>>, <<MakeTable("S1", "T2", AmtOnly)>>},
        s2 \in {<<>>, <<MakeTable("S2", "T1", AmtOnly)>>}}

(***************************************************************************)
(* Helpers for Python lists, dicts and sets.                               *)
(***************************************************************************)
RECURSIVE Flatten(_)
Flatten(ss) == IF ss = <<>> THEN <<>> ELSE Head(ss) \o Flatten(Tail(ss))

\* the order in which a for loop visits a set of strings: it depends on the
\* string hashes, hence on the hash seed of the process; seed 0 stands for
\* the reference order of the names, seed 1 for its reverse
RECURSIVE SetOrder(_, _)
SetOrder(S, seed) ==
    IF S = {} THEN <<>>
    ELSE LET first == CHOOSE x \in S : \A y \in S :
                          IF seed = 0 THEN NameRank(x) <= NameRank(y)
                                      ELSE NameRank(x) >= NameRank(y)
         IN <<first>> \o SetOrder(S \ {first}, seed)

\* {key: x for ...}: the dict of the values xs under the keys ks (ks[i] is
\* the key of xs[i]); the last value of each key wins
DictOf(ks, xs) ==
    [k \in {ks[i] : i \in DOMAIN ks} |->
        LET last == CHOOSE i \in DOMAIN ks :
                        /\ ks[i] = k
                        /\ \A j \in DOMAIN ks : ks[j] = k => j <= i
        IN xs[last]]

\* dict.get(key): None when the key is missing
DictGet(d, k) == IF k \in DOMAIN d THEN d[k] ELSE NoneObj

\* truth value of an object that is either None or a model instance
Truthy(x) == x # NoneObj

\* truth value of an Optional[str]
TruthyStr(x) == x # None /\ x # ""

(***************************************************************************)
(* scia/core/diff.py                                                       *)
(***************************************************************************)
SchemaChange(object_type, schema_name, table_name, column_name, change_type, b, a) ==
    [object_type |-> object_type,
     schema_name |-> schema_name,
     table_name |-> table_name,
     column_name |-> column_name,
     change_type |-> change_type,
     before |-> b,
     after |-> a]

\* ColumnChange with the nullability test written as a second `if`
ColumnChange_BothChanges(schema_name, table_name, col_name, before_cols, after_cols) ==
    LET b_col == DictGet(before_cols, col_name)
        a_col == DictGet(after_cols, col_name)
    IN IF Truthy(b_col) /\ ~Truthy(a_col)
         THEN <<SchemaChange("COLUMN", schema_name, table_name, col_name,
                             "REMOVED", b_col, NoneObj)>>
       ELSE IF ~Truthy(b_col) /\ Truthy(a_col)
         THEN <<SchemaChange("COLUMN", schema_name, table_name, col_name,
                             "ADDED", NoneObj, a_col)>>
       ELSE (IF b_col.data_type # a_col.data_type
               THEN <<SchemaChange("COLUMN", schema_name, table_name, col_name,
                                   "TYPE_CHANGED", b_col, a_col)>>
             ELSE <<>>)
            \o (IF b_col.is_nullable # a_col.is_nullable
                  THEN <<SchemaChange("COLUMN", schema_name, table_name, col_name,
                                      "NULLABILITY_CHANGED", b_col, a_col)>>
                ELSE <<>>)

\* ColumnChange with the nullability test written `or` instead of `!=`
ColumnChange_NullableOr(schema_name, table_name, col_name, before_cols, after_cols) ==
    LET b_col == DictGet(before_cols, col_name)
        a_col == DictGet(after_cols, col_name)
    IN IF Truthy(b_col) /\ ~Truthy(a_col)
         THEN <<SchemaChange("COLUMN", schema_name, table_name, col_name,
                             "REMOVED", b_col, NoneObj)>>
       ELSE IF ~Truthy(b_col) /\ Truthy(a_col)
         THEN <<SchemaChange("COLUMN", schema_name, table_name, col_name,
                             "ADDED", NoneObj, a_col)>>
       ELSE IF b_col.data_type # a_col.data_type
         THEN <<SchemaChange("COLUMN", schema_name, table_name, col_name,
                             "TYPE_CHANGED", b_col, a_col)>>
       ELSE IF b_col.is_nullable \/ a_col.is_nullable
         THEN <<SchemaChange("COLUMN", schema_name, table_name, col_name,
                             "NULLABILITY_CHANGED", b_col, a_col)>>
       ELSE <<>>

\* ColumnChange reporting a nullability change only when it tightens
ColumnChange_TightenOnly(schema_name, table_name, col_name, before_cols, after_cols) ==
    LET b_col == DictGet(before_cols, col_name)
        a_col == DictGet(after_cols, col_name)
    IN IF Truthy(b_col) /\ ~Truthy(a_col)
         THEN <<SchemaChange("COLUMN", schema_name, table_name, col_name,
                             "REMOVED", b_col, NoneObj)>>
       ELSE IF ~Truthy(b_col) /\ Truthy(a_col)
         THEN <<SchemaChange("COLUMN", schema_name, table_name, col_name,
                             "ADDED", NoneObj, a_col)>>
       ELSE IF b_col.data_type # a_col.data_type
         THEN <<SchemaChange("COLUMN", schema_name, table_name, col_name,
                             "TYPE_CHANGED", b_col, a_col)>>
       ELSE IF b_col.is_nullable /\ ~a_col.is_nullable
         THEN <<SchemaChange("COLUMN", schema_name, table_name, col_name,
                             "NULLABILITY_CHANGED", b_col, a_col)>>
       ELSE <<>>

\* ColumnChange passing the column of an added column as `before`
ColumnChange_AddedAsBefore(schema_name, table_name, col_name, before_cols, after_cols) ==
    LET b_col == DictGet(before_cols, col_name)
        a_col == DictGet(after_cols, col_name)
    IN IF Truthy(b_col) /\ ~Truthy(a_col)
         THEN <<SchemaChange("COLUMN", schema_name, table_name, col_name,
                             "REMOVED", b_col, NoneObj)>>
       ELSE IF ~Truthy(b_col) /\ Truthy(a_col)
         THEN <<SchemaChange("COLUMN", schema_name, table_name, col_name,
                             "ADDED", a_col, NoneObj)>>
       ELSE IF Truthy(b_col) /\ Truthy(a_col)
         THEN IF b_col.data_type # a_col.data_type
                THEN <<SchemaChange("COLUMN", schema_name, table_name, col_name,
                                    "TYPE_CHANGED", b_col, a_col)>>
              ELSE IF b_col.is_nullable # a_col.is_nullable
                THEN <<SchemaChange("COLUMN", schema_name, table_name, col_name,
                                    "NULLABILITY_CHANGED", b_col, a_col)>>
              ELSE <<>>
       ELSE <<>>

\* the changes of one column name of a table present in both versions
ColumnChange(schema_name, table_name, col_name, before_cols, after_cols) ==
    LET b_col == DictGet(before_cols, col_name)
        a_col == DictGet(after_cols, col_name)
    IN IF Truthy(b_col) /\ ~Truthy(a_col)
         THEN <<SchemaChange("COLUMN", schema_name, table_name, col_name,
                             "REMOVED", b_col, NoneObj)>>
       ELSE IF ~Truthy(b_col) /\ Truthy(a_col)
         THEN <<SchemaChange("COLUMN", schema_name, table_name, col_name,
                             "ADDED", NoneObj, a_col)>>
       ELSE IF Truthy(b_col) /\ Truthy(a_col)
         THEN IF b_col.data_type # a_col.data_type
                THEN <<SchemaChange("COLUMN", schema_name, table_name, col_name,
                                    "TYPE_CHANGED", b_col, a_col)>>
              ELSE IF b_col.is_nullable # a_col.is_nullable
                THEN <<SchemaChange("COLUMN", schema_name, table_name, col_name,
                                    "NULLABILITY_CHANGED", b_col, a_col)>>
              ELSE <<>>
       ELSE <<>>

_process_column_level_diff(schema_name, table_name, before_table, after_table, seed) ==
    LET before_cols == DictOf([i \in DOMAIN before_table.columns |-> before_table.columns[i].column_name],
                   before_table.columns)
        after_cols == DictOf([i \in DOMAIN after_table.columns |-> after_table.columns[i].column_name],
                   after_table.columns)
        all_col_names == SetOrder(DOMAIN before_cols \cup DOMAIN after_cols, seed)
    IN Flatten([i \in 1..Len(all_col_names) |->
                  ColumnChange(schema_name, table_name, all_col_names[i],
                               before_cols, after_cols)])

\* TableChange without the `continue` after a removed table: the column level
\* runs against an empty table
TableChange_NoContinue(schema_name, table_name, before_table_map, after_table_map, seed) ==
    LET b_table == DictGet(before_table_map, table_name)
        a_table == DictGet(after_table_map, table_name)
    IN IF Truthy(b_table) /\ ~Truthy(a_table)
         THEN <<SchemaChange("TABLE", schema_name, table_name, None,
                             "REMOVED", NoneObj, NoneObj)>>
              \o _process_column_level_diff(schema_name, table_name, b_table,
                     TableSchema(schema_name, table_name, <<>>), seed)
       ELSE IF ~Truthy(b_table) /\ Truthy(a_table)
         THEN <<SchemaChange("TABLE", schema_name, table_name, None,
                             "ADDED", NoneObj, NoneObj)>>
       ELSE _process_column_level_diff(schema_name, table_name, b_table, a_table, seed)

\* the changes of one table name of a schema present in both versions
TableChange(schema_name, table_name, before_table_map, after_table_map, seed) ==
    LET b_table == DictGet(before_table_map, table_name)
        a_table == DictGet(after_table_map, table_name)
    IN IF Truthy(b_table) /\ ~Truthy(a_table)
         THEN <<SchemaChange("TABLE", schema_name, table_name, None,
                             "REMOVED", NoneObj, NoneObj)>>
       ELSE IF ~Truthy(b_table) /\ Truthy(a_table)
         THEN <<SchemaChange("TABLE", schema_name, table_name, None,
                             "ADDED", NoneObj, NoneObj)>>
       ELSE _process_column_level_diff(schema_name, table_name, b_table, a_table, seed)

\* before_schemas / after_schemas: the tables grouped by schema_name
GroupBySchema(tables) ==
    [s \in {tables[i].schema_name : i \in DOMAIN tables} |->
        SelectSeq(tables, LAMBDA t : t.schema_name = s)]

\* the changes of one schema name; a missing group (None) is the empty list
SchemaLevelChange(schema_name, before_schemas, after_schemas, seed) ==
    LET b_tables == IF schema_name \in DOMAIN before_schemas
                      THEN before_schemas[schema_name] ELSE <<>>
        a_tables == IF schema_name \in DOMAIN after_schemas
                      THEN after_schemas[schema_name] ELSE <<>>
    IN IF b_tables # <<>> /\ a_tables = <<>>
         THEN <<SchemaChange("SCHEMA", schema_name, None, None,
                             "REMOVED", NoneObj, NoneObj)>>
       ELSE IF b_tables = <<>> /\ a_tables # <<>>
         THEN <<SchemaChange("SCHEMA", schema_name, None, None,
                             "ADDED", NoneObj, NoneObj)>>
       ELSE LET before_table_map == DictOf([i \in DOMAIN b_tables |-> b_tables[i].table_name], b_tables)
                after_table_map == DictOf([i \in DOMAIN a_tables |-> a_tables[i].table_name], a_tables)
                all_table_names ==
                    SetOrder(DOMAIN before_table_map \cup DOMAIN after_table_map, seed)
            IN Flatten([i \in 1..Len(all_table_names) |->
                          TableChange(schema_name, all_table_names[i],
                                      before_table_map, after_table_map, seed)])

diff_schemas(b, a, seed) ==
    LET before_schemas == GroupBySchema(b)
        after_schemas == GroupBySchema(a)
        all_schema_names ==
            SetOrder(DOMAIN before_schemas \cup DOMAIN after_schemas, seed)
    IN Flatten([i \in 1..Len(all_schema_names) |->
                  SchemaLevelChange(all_schema_names[i],
                                    before_schemas, after_schemas, seed)])

(***************************************************************************)
(* scia/models/finding.py                                                  *)
(***************************************************************************)
\* the members of the enum FindingType; FindingType.X raises AttributeError
\* for any other X
FindingType ==
    {"COLUMN_REMOVED", "COLUMN_TYPE_CHANGED", "COLUMN_NULLABILITY_CHANGED",
     "JOIN_KEY_CHANGED", "GRAIN_CHANGE", "POTENTIAL_BREAKAGE"}

\* the fields the model Finding declares; confidence defaults to 1.0
Finding(finding_type, severity, base_risk, evidence, description) ==
    [finding_type |-> finding_type,
     severity |-> severity,
     base_risk |-> base_risk,
     evidence |-> evidence,
     confidence |-> 1,
     description |-> description]

(***************************************************************************)
(* scia/sql/parser.py, scia/sql/heuristics.py: the signals.  sql_signals   *)
(* is None or a dict, modelled by the sequence of its values.              *)
(***************************************************************************)
SQLMetadata(tables, columns, join_keys, group_by_cols) ==
    [tables |-> tables,
     columns |-> columns,
     join_keys |-> join_keys,
     group_by_cols |-> group_by_cols]

\* ... a JOIN b ON a.id = b.amt
JoinQuery == SQLMetadata({"A", "B"}, {"ID", "AMT"}, <<<<"ID", "AMT">>>>, {})
\* SELECT id, count(*) FROM a GROUP BY id
GroupQuery == SQLMetadata({"A"}, {"ID"}, <<>>, {"ID"})
\* SELECT 1
PlainQuery == SQLMetadata({}, {}, <<>>, {})

SignalSets ==
    {NoneObj}
    \cup {[values |-> v] :
            v \in {<<>>, <<JoinQuery>>, <<GroupQuery>>, <<PlainQuery>>,
                   <<JoinQuery, GroupQuery>>}}

\* truth value of Optional[Dict]: None and the empty dict are false
SignalsGiven(signals) == signals # NoneObj /\ signals.values # <<>>

(***************************************************************************)
(* scia/core/rules.py                                                      *)
(***************************************************************************)
Returned(fs) == [raised |-> "none", findings |-> fs]
Raised(exc) == [raised |-> exc, findings |-> <<>>]

\* the loop of a rule over the matching changes hits, in the order of the
\* diff: building the first finding looks member up in FindingType, which
\* raises AttributeError for a name the enum lacks; made are the findings
RuleLoop(member, hits, made) ==
    IF hits # <<>> /\ member \notin FindingType
      THEN Raised("AttributeError")
    ELSE Returned(made)

rule_schema_removed(diff) ==
    LET hits ==
            SelectSeq(diff, LAMBDA change :
                /\ change.object_type = "SCHEMA"
                /\ change.change_type = "REMOVED")
        Make(change) ==
            Finding("SCHEMA_REMOVED", "HIGH",
                    100,
                    [schema |-> change.schema_name],
                    "Schema '" \o change.schema_name \o "' was removed.")
    IN RuleLoop("SCHEMA_REMOVED", hits, [i \in 1..Len(hits) |-> Make(hits[i])])

rule_schema_added(diff) ==
    LET hits ==
            SelectSeq(diff, LAMBDA change :
                /\ change.object_type = "SCHEMA"
                /\ change.change_type = "ADDED")
        Make(change) ==
            Finding("SCHEMA_ADDED", "LOW",
                    0,
                    [schema |-> change.schema_name],
                    "New schema '" \o change.schema_name \o "' was added.")
    IN RuleLoop("SCHEMA_ADDED", hits, [i \in 1..Len(hits) |-> Make(hits[i])])

rule_table_removed(diff) ==
    LET hits ==
            SelectSeq(diff, LAMBDA change :
                /\ change.object_type = "TABLE"
                /\ change.change_type = "REMOVED")
        Make(change) ==
            Finding("TABLE_REMOVED", "HIGH",
                    90,
                    [schema |-> change.schema_name, table |-> change.table_name],
                    "Table '" \o change.table_name \o "' was removed from schema '"
                        \o change.schema_name \o "'.")
    IN RuleLoop("TABLE_REMOVED", hits, [i \in 1..Len(hits) |-> Make(hits[i])])

rule_table_added(diff) ==
    LET hits ==
            SelectSeq(diff, LAMBDA change :
                /\ change.object_type = "TABLE"
                /\ change.change_type = "ADDED")
        Make(change) ==
            Finding("TABLE_ADDED", "LOW",
                    0,
                    [schema |-> change.schema_name, table |-> change.table_name],
                    "New table '" \o change.table_name \o "' was added to schema '"
                        \o change.schema_name \o "'.")
    IN RuleLoop("TABLE_ADDED", hits, [i \in 1..Len(hits) |-> Make(hits[i])])

rule_column_removed(diff) ==
    LET hits ==
            SelectSeq(diff, LAMBDA change :
                /\ change.object_type = "COLUMN"
                /\ change.change_type = "REMOVED")
        Make(change) ==
            Finding("COLUMN_REMOVED", "HIGH",
                    80,
                    [schema |-> change.schema_name, table |-> change.table_name,
                     column |-> change.column_name],
                    "Column '" \o change.column_name \o "' removed from table '"
                        \o change.table_name \o "'.")
    IN RuleLoop("COLUMN_REMOVED", hits, [i \in 1..Len(hits) |-> Make(hits[i])])

rule_column_added(diff) ==
    LET hits ==
            SelectSeq(diff, LAMBDA change :
                /\ change.object_type = "COLUMN"
                /\ change.change_type = "ADDED")
        Make(change) ==
            Finding("COLUMN_ADDED", "LOW",
                    0,
                    [schema |-> change.schema_name, table |-> change.table_name,
                     column |-> change.column_name],
                    "New column '" \o change.column_name \o "' added to table '"
                        \o change.table_name \o "'.")
    IN RuleLoop("COLUMN_ADDED", hits, [i \in 1..Len(hits) |-> Make(hits[i])])

\* {col.upper() for names in name_sets for col in names}
UpperAll(name_sets) == UNION {{Upper(col) : col \in names} : names \in name_sets}

rule_column_type_changed(diff, signals) ==
    LET referenced_columns ==
            IF SignalsGiven(signals)
              THEN UpperAll({signals.values[i].columns : i \in DOMAIN signals.values})
            ELSE {}
        hits ==
            SelectSeq(diff, LAMBDA change :
                /\ change.object_type = "COLUMN"
                /\ change.change_type = "TYPE_CHANGED")
        Make(change) ==
            Finding("COLUMN_TYPE_CHANGED", "MEDIUM",
                    IF SignalsGiven(signals)
                       /\ Upper(change.column_name) \in referenced_columns
                      THEN 50 ELSE 40,
                    [schema |-> change.schema_name, table |-> change.table_name,
                     column |-> change.column_name,
                     before |-> change.before.data_type,
                     after |-> change.after.data_type],
                    "Column '" \o change.column_name \o "' type changed from "
                        \o change.before.data_type \o " to "
                        \o change.after.data_type \o ".")
    IN RuleLoop("COLUMN_TYPE_CHANGED", hits, [i \in 1..Len(hits) |-> Make(hits[i])])

rule_nullability_changed(diff) ==
    LET hits ==
            SelectSeq(diff, LAMBDA change :
                /\ change.object_type = "COLUMN"
                /\ change.change_type = "NULLABILITY_CHANGED"
                /\ change.before.is_nullable /\ ~change.after.is_nullable)
        Make(change) ==
            Finding("COLUMN_NULLABILITY_CHANGED", "MEDIUM",
                    50,
                    [schema |-> change.schema_name, table |-> change.table_name,
                     column |-> change.column_name],
                    "Column '" \o change.column_name
                        \o "' changed from NULL to NOT NULL.")
    IN RuleLoop("COLUMN_NULLABILITY_CHANGED", hits, [i \in 1..Len(hits) |-> Make(hits[i])])

rule_join_key_changed(diff, signals) ==
    IF ~SignalsGiven(signals) THEN Returned(<<>>)
    ELSE
    LET joining_columns ==
            UNION {{Upper(signals.values[i].join_keys[k][n]) :
                       k \in DOMAIN signals.values[i].join_keys, n \in 1..2} :
                   i \in DOMAIN signals.values}
        hits ==
            SelectSeq(diff, LAMBDA change :
                /\ change.object_type = "COLUMN"
                /\ Upper(change.column_name) \in joining_columns
                /\ change.change_type \in {"REMOVED", "TYPE_CHANGED"})
        Make(change) ==
            Finding("JOIN_KEY_CHANGED", "HIGH",
                    90,
                    [schema |-> change.schema_name, table |-> change.table_name,
                     column |-> change.column_name,
                     change_type |-> change.change_type],
                    "Column '" \o change.column_name \o "' in table '"
                        \o change.table_name \o "' is used as a JOIN key and was "
                        \o Lower(change.change_type)
                        \o ". This will likely break downstream queries.")
    IN RuleLoop("JOIN_KEY_CHANGED", hits, [i \in 1..Len(hits) |-> Make(hits[i])])

\* rule_grain_change with a base risk of the HIGH band under severity MEDIUM
rule_grain_change_Risk80(diff, signals) ==
    IF ~SignalsGiven(signals) THEN Returned(<<>>)
    ELSE
    LET grouping_columns ==
            UpperAll({signals.values[i].group_by_cols : i \in DOMAIN signals.values})
        hits ==
            SelectSeq(diff, LAMBDA change :
                /\ change.object_type = "COLUMN"
                /\ change.change_type = "REMOVED"
                /\ Upper(change.column_name) \in grouping_columns)
        Make(change) ==
            Finding("GRAIN_CHANGE", "MEDIUM",
                    80,
                    [schema |-> change.schema_name, table |-> change.table_name,
                     column |-> change.column_name],
                    "Column '" \o change.column_name \o "' in table '"
                        \o change.table_name \o "' is used in GROUP BY clauses. "
                        \o "Removing it will change the grain of downstream results.")
    IN RuleLoop("GRAIN_CHANGE", hits, [i \in 1..Len(hits) |-> Make(hits[i])])

rule_grain_change(diff, signals) ==
    IF ~SignalsGiven(signals) THEN Returned(<<>>)
    ELSE
    LET grouping_columns ==
            UpperAll({signals.values[i].group_by_cols : i \in DOMAIN signals.values})
        hits ==
            SelectSeq(diff, LAMBDA change :
                /\ change.object_type = "COLUMN"
                /\ change.change_type = "REMOVED"
                /\ Upper(change.column_name) \in grouping_columns)
        Make(change) ==
            Finding("GRAIN_CHANGE", "MEDIUM",
                    60,
                    [schema |-> change.schema_name, table |-> change.table_name,
                     column |-> change.column_name],
                    "Column '" \o change.column_name \o "' in table '"
                        \o change.table_name \o "' is used in GROUP BY clauses. "
                        \o "Removing it will change the grain of downstream results.")
    IN RuleLoop("GRAIN_CHANGE", hits, [i \in 1..Len(hits) |-> Make(hits[i])])

\* the results of the rules in the order of ALL_RULES
ALL_RULES(diff, signals) ==
    <<rule_schema_removed(diff),
      rule_schema_added(diff),
      rule_table_removed(diff),
      rule_table_added(diff),
      rule_column_removed(diff),
      rule_column_added(diff),
      rule_column_type_changed(diff, signals),
      rule_nullability_changed(diff),
      rule_join_key_changed(diff, signals),
      rule_grain_change(diff, signals)>>

\* the findings of all rules concatenated, or the exception of the first rule
\* that raises
apply_rules(diff, signals) ==
    LET results == ALL_RULES(diff, signals)
        raising == {i \in DOMAIN results : results[i].raised # "none"}
    IN IF raising # {}
         THEN Raised(results[CHOOSE i \in raising : \A j \in raising : i <= j].raised)
       ELSE Returned(Flatten([i \in DOMAIN results |-> results[i].findings]))

(***************************************************************************)
(* scia/core/risk.py                                                       *)
(***************************************************************************)
sensitivity == 100

RECURSIVE SumRiskScores(_)
SumRiskScores(fs) ==
    IF fs = <<>> THEN 0
    ELSE (IF Head(fs).risk_score # None THEN Head(fs).risk_score ELSE 0)
         + SumRiskScores(Tail(fs))

\* int(100 * (raw_total / (raw_total + sensitivity))): the float quotient,
\* truncated, is the integer quotient for every raw_total up to 200000
Normalize(raw) ==
    IF raw = 0 THEN 0
    ELSE (100 * raw) \div (raw + sensitivity)

_classify(score, fs) ==
    IF score < 15 THEN "LOW"
    ELSE LET has_high_finding == \E i \in DOMAIN fs : fs[i].severity = "HIGH"
         IN IF score < 40 THEN "MEDIUM"
            ELSE IF ~has_high_finding THEN "MEDIUM"
            ELSE "HIGH"

\* RiskAssessment.__init__: f.risk_score raises AttributeError on an object
\* whose model declares no field risk_score
RiskAssessment(fs) ==
    IF \E i \in DOMAIN fs : "risk_score" \notin DOMAIN fs[i]
      THEN [raised |-> "AttributeError", raw_total |-> None,
            risk_score |-> None, classification |-> None]
    ELSE LET raw == SumRiskScores(fs)
             score == Normalize(raw)
         IN [raised |-> "none", raw_total |-> raw, risk_score |-> score,
             classification |-> _classify(score, fs)]

(***************************************************************************)
(* scia/core/utils.py and scia/warehouse/base.py.  A dotted identifier is  *)
(* the sequence of its dot-separated components ("S1.T1" is <<"S1",        *)
(* "T1">>, the empty string is <<"">>); schema, table and view names       *)
(* contain no dot.                                                         *)
(***************************************************************************)
\* the largest max_depth of a downstream analysis (analyze's default is 3)
MaxDepth == 3
\* the largest number of table references of one view definition
MaxRefs == 2

\* identifier.upper()
UpperName(identifier) == [i \in DOMAIN identifier |-> Upper(identifier[i])]

\* (database, schema, table) of an identifier; with one component, or more
\* than three, the table is the whole identifier
parse_identifier(identifier) ==
    IF identifier = <<"">>
      THEN [database |-> "", schema |-> "", table |-> ""]
    ELSE IF Len(identifier) = 3
      THEN [database |-> identifier[1], schema |-> identifier[2],
            table |-> identifier[3]]
    ELSE IF Len(identifier) = 2
      THEN [database |-> "", schema |-> identifier[1], table |-> identifier[2]]
    ELSE IF Len(identifier) = 1
      THEN [database |-> "", schema |-> "", table |-> identifier[1]]
    ELSE [database |-> "", schema |-> "", table |-> identifier]

\* what a call returns: its value, or the exception it raises
Result(value) == [raised |-> "none", value |-> value]
Raises(exc) == [raised |-> exc, value |-> <<>>]

\* a warehouse adapter: the views of the schema in the order of the dict
\* that fetch_views returns, each with its definition, the foreign keys
\* that fetch_foreign_keys returns, and the operations that raise.  The
\* definition of a view is modelled by the table references that
\* parse_table_references extracts from it.
WarehouseAdapter(views_raise, views, parse_raises, fks_raise, fks) ==
    [views_raise |-> views_raise,
     views |-> views,
     parse_raises |-> parse_raises,
     fks_raise |-> fks_raise,
     fks |-> fks]

fetch_views(warehouse_adapter) ==
    IF warehouse_adapter.views_raise THEN Raises("Exception")
    ELSE Result(warehouse_adapter.views)

parse_table_references(warehouse_adapter, sql) ==
    IF warehouse_adapter.parse_raises THEN Raises("Exception")
    ELSE Result(sql)

fetch_foreign_keys(warehouse_adapter) ==
    IF warehouse_adapter.fks_raise THEN Raises("Exception")
    ELSE Result(warehouse_adapter.fks)

\* the views of a schema: v1, V2 and V3, whose names differ from the names
\* of the tables and from each other also when upper-cased
ViewNames == <<"v1", "V2", "V3">>

\* the objects a view definition may select from, by short or qualified
\* name and in either letter case
RefNames == <<<<"t1">>, <<"S1", "T1">>, <<"v1">>, <<"s1", "V2">>>>

RefLists ==
    UNION {{[i \in 1..n |-> RefNames[q[i]]] :
              q \in {p \in [1..n -> DOMAIN RefNames] :
                       \A i, j \in 1..n : i < j => p[i] < p[j]}} :
           n \in 0..MaxRefs}

ViewDicts ==
    UNION {{[i \in 1..n |-> [name |-> ViewNames[i], sql |-> q[i]]] :
              q \in [1..n -> RefLists]} :
           n \in 0..Len(ViewNames)}

\* a foreign key as fetch_foreign_keys returns it
ForeignKey(table_name, referenced_table) ==
    [table_name |-> table_name, referenced_table |-> referenced_table]

FkLists ==
    {<<>>,
     <<ForeignKey("t1", "PARENT")>>,
     <<ForeignKey("CHILD", "T1"), ForeignKey("T2", "PARENT"),
       ForeignKey("CHILD", "t1"), ForeignKey("T1", "S1")>>}

\* the adapters of the impact analysis: any views with foreign keys that
\* play no part, no view or one view with a parse_table_references that
\* raises (it raises on the first definition it is given), or any foreign
\* keys without views
Adapters ==
    {WarehouseAdapter(FALSE, views, FALSE, FALSE, <<>>) : views \in ViewDicts}
    \cup {WarehouseAdapter(FALSE, views, TRUE, FALSE, <<>>) :
            views \in {v \in ViewDicts : Len(v) <= 1}}
    \cup {WarehouseAdapter(views_raise, <<>>, FALSE, fks_raise, fks) :
        views_raise \in BOOLEAN, fks_raise \in BOOLEAN, fks \in FkLists}

\* the tables whose impact is analysed
ChangedTables == {<<"S1", "T1">>, <<"t1">>, <<"DB", "S1", "T1">>}

(***************************************************************************)
(* scia/models/finding.py: DependencyObject                                *)
(***************************************************************************)
DependencyObject(object_type, name, schema, is_critical) ==
    [object_type |-> object_type,
     name |-> name,
     schema_name |-> schema,
     is_critical |-> is_critical]

(***************************************************************************)
(* scia/core/impact.py                                                     *)
(***************************************************************************)
\* the locals of analyze_downstream before its loop, with the number of
\* parse_table_references calls made and the exception that left the loop
DownstreamLocals(changed_table) ==
    [all_dependents |-> <<>>,
     processed_objects |-> {UpperName(changed_table)},
     queue |-> <<<<UpperName(changed_table), 0>>>>,
     parse_calls |-> 0,
     raised |-> "none"]

\* VisitView without processed_objects.add(full_view_name)
VisitView_NoProcessedAdd(st, view, current_obj, depth, database, schema, warehouse_adapter) ==
    LET full_view_name ==
            UpperName(IF database # "" /\ schema # ""
                        THEN <<database, schema, view.name>>
                      ELSE IF schema # "" THEN <<schema, view.name>>
                      ELSE <<view.name>>)
        ref_tables == parse_table_references(warehouse_adapter, view.sql)
        normalized_refs ==
            [i \in DOMAIN ref_tables.value |-> UpperName(ref_tables.value[i])]
        target_matches ==
            {current_obj}
            \cup (IF Len(current_obj) > 1
                    THEN {<<current_obj[Len(current_obj)]>>} ELSE {})
    IN IF st.raised # "none" THEN st
       ELSE IF full_view_name \in st.processed_objects THEN st
       ELSE IF ref_tables.raised # "none"
         THEN [st EXCEPT !.parse_calls = @ + 1, !.raised = ref_tables.raised]
       ELSE IF \E i \in DOMAIN normalized_refs : normalized_refs[i] \in target_matches
         THEN [st EXCEPT
                 !.parse_calls = @ + 1,
                 !.all_dependents =
                     Append(@, DependencyObject("VIEW", view.name, schema, FALSE)),
                 !.queue = Append(@, <<full_view_name, depth + 1>>)]
       ELSE [st EXCEPT !.parse_calls = @ + 1]

\* the body of `for view_name, sql in views.items()` for one view; once an
\* exception has left the loop nothing more happens
VisitView(st, view, current_obj, depth, database, schema, warehouse_adapter) ==
    LET full_view_name ==
            UpperName(IF database # "" /\ schema # ""
                        THEN <<database, schema, view.name>>
                      ELSE IF schema # "" THEN <<schema, view.name>>
                      ELSE <<view.name>>)
        ref_tables == parse_table_references(warehouse_adapter, view.sql)
        normalized_refs ==
            [i \in DOMAIN ref_tables.value |-> UpperName(ref_tables.value[i])]
        target_matches ==
            {current_obj}
            \cup (IF Len(current_obj) > 1
                    THEN {<<current_obj[Len(current_obj)]>>} ELSE {})
    IN IF st.raised # "none" THEN st
       ELSE IF full_view_name \in st.processed_objects THEN st
       ELSE IF ref_tables.raised # "none"
         THEN [st EXCEPT !.parse_calls = @ + 1, !.raised = ref_tables.raised]
       ELSE IF \E i \in DOMAIN normalized_refs : normalized_refs[i] \in target_matches
         THEN [st EXCEPT
                 !.parse_calls = @ + 1,
                 !.all_dependents =
                     Append(@, DependencyObject("VIEW", view.name, schema, FALSE)),
                 !.processed_objects = @ \cup {full_view_name},
                 !.queue = Append(@, <<full_view_name, depth + 1>>)]
       ELSE [st EXCEPT !.parse_calls = @ + 1]

RECURSIVE VisitViews(_, _, _, _, _, _, _)
VisitViews(st, views, current_obj, depth, database, schema, warehouse_adapter) ==
    IF views = <<>> THEN st
    ELSE VisitViews(VisitView(st, Head(views), current_obj, depth,
                              database, schema, warehouse_adapter),
                    Tail(views), current_obj, depth, database, schema,
                    warehouse_adapter)

\* PopQueue with the depth test written `depth > max_depth`
PopQueue_DepthOffByOne(st, views, max_depth, database, schema, warehouse_adapter) ==
    LET current_obj == Head(st.queue)[1]
        depth == Head(st.queue)[2]
        popped == [st EXCEPT !.queue = Tail(@)]
    IN IF depth > max_depth THEN popped
       ELSE VisitViews(popped, views, current_obj, depth, database, schema,
                       warehouse_adapter)

\* one round of `while queue`: queue.pop(0), the depth test, the for loop
PopQueue(st, views, max_depth, database, schema, warehouse_adapter) ==
    LET current_obj == Head(st.queue)[1]
        depth == Head(st.queue)[2]
        popped == [st EXCEPT !.queue = Tail(@)]
    IN IF depth >= max_depth THEN popped
       ELSE VisitViews(popped, views, current_obj, depth, database, schema,
                       warehouse_adapter)

RECURSIVE WhileQueue(_, _, _, _, _, _)
WhileQueue(st, views, max_depth, database, schema, warehouse_adapter) ==
    IF st.raised # "none" \/ st.queue = <<>> THEN st
    ELSE WhileQueue(PopQueue(st, views, max_depth, database, schema,
                             warehouse_adapter),
                    views, max_depth, database, schema, warehouse_adapter)

\* the whole call: the list returned, or the exception raised
analyze_downstream(changed_table, warehouse_adapter, max_depth) ==
    LET id == parse_identifier(changed_table)
        views == fetch_views(warehouse_adapter)
    IN IF views.raised # "none" THEN Result(<<>>)
       ELSE LET st == WhileQueue(DownstreamLocals(changed_table), views.value,
                                 max_depth, id.database, id.schema,
                                 warehouse_adapter)
            IN IF st.raised # "none" THEN Raises(st.raised)
               ELSE Result(st.all_dependents)

\* fk.get(key, '')
FkGet(fk, key) == IF key \in DOMAIN fk THEN fk[key] ELSE ""

analyze_upstream(changed_table, warehouse_adapter) ==
    LET id == parse_identifier(changed_table)
        table_name == Upper(id.table)
        fks == fetch_foreign_keys(warehouse_adapter)
        hits == SelectSeq(fks.value, LAMBDA fk :
                    Upper(FkGet(fk, "table_name")) = table_name)
    IN IF id.table = "" THEN Result(<<>>)
       ELSE IF fks.raised # "none" THEN Result(<<>>)
       ELSE Result([i \in DOMAIN hits |->
                      DependencyObject("TABLE", FkGet(hits[i], "referenced_table"),
                                       id.schema, TRUE)])

\* all_downstream_fks after the foreign keys fks: a table is appended unless
\* one with the same name and schema is in the list
RECURSIVE DownstreamFks(_, _, _, _)
DownstreamFks(all_downstream_fks, fks, table_name, schema) ==
    IF fks = <<>> THEN all_downstream_fks
    ELSE LET fk == Head(fks)
             dep_obj == DependencyObject("TABLE", FkGet(fk, "table_name"),
                                         schema, TRUE)
             next ==
                 IF Upper(FkGet(fk, "referenced_table")) = table_name
                    /\ ~\E i \in DOMAIN all_downstream_fks :
                          /\ all_downstream_fks[i].name = dep_obj.name
                          /\ all_downstream_fks[i].schema_name = dep_obj.schema_name
                   THEN Append(all_downstream_fks, dep_obj)
                 ELSE all_downstream_fks
         IN DownstreamFks(next, Tail(fks), table_name, schema)

analyze_downstream_fks(changed_table, warehouse_adapter) ==
    LET id == parse_identifier(changed_table)
        table_name == Upper(id.table)
        fks == fetch_foreign_keys(warehouse_adapter)
    IN IF id.table = "" THEN Result(<<>>)
       ELSE IF fks.raised # "none" THEN Result(<<>>)
       ELSE Result(DownstreamFks(<<>>, fks.value, table_name, id.schema))

(***************************************************************************)
(* scia/sql/ddl_parser.py.  The DDL text is modelled by what sqlglot makes *)
(* of it after the dialect preprocessors: the list of its statements, or a *)
(* ParseError.                                                             *)
(***************************************************************************)
\* the largest number of statements of a DDL text
MaxStmts == 2

\* exp.Table: catalog and db are "" when the name is not qualified
TableRef(catalog, db, name) == [catalog |-> catalog, db |-> db, name |-> name]

\* exp.ColumnDef; kind is None without a type
ColumnDef(name, kind, not_null) ==
    [node |-> "ColumnDef", name |-> name, kind |-> kind, not_null |-> not_null]

\* exp.Drop of kind COLUMN
DropColumn(name) == [node |-> "Drop", kind |-> "COLUMN", name |-> name]

\* exp.RenameColumn
RenameColumn(name, to) == [node |-> "RenameColumn", name |-> name, to |-> to]

\* exp.AlterColumn; dtype is None without TYPE, allow_null is "None",
\* "True" or "False"
AlterColumn(name, dtype, allow_null) ==
    [node |-> "AlterColumn", name |-> name, dtype |-> dtype,
     allow_null |-> allow_null]

\* exp.Create of a table with its column definitions
Create(table, expressions) ==
    [node |-> "Create", this |-> table, expressions |-> expressions]

\* exp.Alter with its actions
Alter(table, actions) == [node |-> "Alter", this |-> table, actions |-> actions]

\* any other statement, such as CREATE PROCEDURE
Command == [node |-> "Command"]

\* schemas[key] = value: a dict is the list of its items in insertion order.
\* An item also tells whether its value is the very object the caller
\* passed in base_schemas (shared) or an object of the parser's own.
DictSetItem(d, item) ==
    IF \E i \in DOMAIN d : d[i].key = item.key
      THEN [i \in DOMAIN d |-> IF d[i].key = item.key THEN item ELSE d[i]]
    ELSE Append(d, item)

DictSet(d, key, value) ==
    DictSetItem(d, [key |-> key, value |-> value, shared |-> FALSE])

\* list(schemas.values())
DictValues(d) == [i \in DOMAIN d |-> d[i].value]

\* line 140: key = (schema.schema_name or 'PUBLIC', schema.table_name)
SeedKey(schema) ==
    <<IF schema.schema_name # "" THEN schema.schema_name ELSE "PUBLIC",
      schema.table_name>>

\* SeedSchemas with schemas[key] = schema, without model_copy(deep=True)
RECURSIVE SeedSchemas_NoCopy(_, _)
SeedSchemas_NoCopy(d, base) ==
    IF base = <<>> THEN d
    ELSE SeedSchemas_NoCopy(
           DictSetItem(d, [key |-> SeedKey(Head(base)), value |-> Head(base),
                           shared |-> TRUE]),
           Tail(base))

\* lines 138-141: the dict seeded with deep copies of the base tables
RECURSIVE SeedSchemas(_, _)
SeedSchemas(d, base) ==
    IF base = <<>> THEN d
    ELSE SeedSchemas(DictSet(d, SeedKey(Head(base)), Head(base)), Tail(base))

\* the caller's base tables after the parser changed its dict in place:
\* a table whose object the dict shares shows the dict's value
SharedWith(base, d, i) ==
    {k \in DOMAIN d :
        /\ d[k].shared
        /\ d[k].key = SeedKey(base[i])
        /\ \A j \in DOMAIN base : SeedKey(base[j]) = d[k].key => j <= i}

WriteThrough(base, d) ==
    [i \in DOMAIN base |->
        IF SharedWith(base, d, i) # {}
          THEN d[CHOOSE k \in SharedWith(base, d, i) : TRUE].value
        ELSE base[i]]

_extract_table_context(table_schema) ==
    IF table_schema.name = "" THEN NoneObj
    ELSE [table_name |-> Upper(table_schema.name),
          schema_name |-> Upper(IF table_schema.db = ""
                                   \/ Upper(table_schema.db) = "NONE"
                                  THEN "PUBLIC" ELSE table_schema.db),
          db_name |-> IF table_schema.catalog # ""
                        THEN Upper(table_schema.catalog) ELSE None]

_extract_column_from_columndef(col_expr, schema_name, table_name, ordinal_pos, db_name) ==
    IF col_expr.name = "" THEN NoneObj
    ELSE [ColumnSchema(schema_name, Upper(table_name), Upper(col_expr.name),
                       Upper(IF col_expr.kind # None THEN col_expr.kind
                             ELSE "VARCHAR"),
                       ~col_expr.not_null, ordinal_pos)
            EXCEPT !.database_name = IF TruthyStr(db_name) THEN Upper(db_name)
                                     ELSE None]

\* the columns extracted so far, ordinal_pos being Len(columns) + 1
RECURSIVE _extract_columns_from_schema(_, _, _, _, _)
_extract_columns_from_schema(columns, expressions, schema_name, table_name, db_name) ==
    IF expressions = <<>> THEN columns
    ELSE LET col == _extract_column_from_columndef(
                        Head(expressions), schema_name, table_name,
                        Len(columns) + 1, db_name)
         IN _extract_columns_from_schema(
                IF Head(expressions).node = "ColumnDef" /\ Truthy(col)
                  THEN Append(columns, col) ELSE columns,
                Tail(expressions), schema_name, table_name, db_name)

\* the TableSchema of a CREATE TABLE statement, or None
_handle_create_table(stmt) ==
    LET table_context == _extract_table_context(stmt.this)
        columns == _extract_columns_from_schema(
                       <<>>, stmt.expressions, table_context.schema_name,
                       table_context.table_name, table_context.db_name)
    IN IF ~Truthy(table_context) THEN NoneObj
       ELSE IF columns = <<>> THEN NoneObj
       ELSE [TableSchema(table_context.schema_name, table_context.table_name,
                         columns)
               EXCEPT !.database_name = table_context.db_name]

\* the table after ADD COLUMN
_handle_add_column(action, table_schema, schema_name, table_name) ==
    LET new_col == _extract_column_from_columndef(
                       action, schema_name, table_name,
                       Len(table_schema.columns) + 1, None)
    IN IF Truthy(new_col)
         THEN [table_schema EXCEPT !.columns = Append(@, new_col)]
       ELSE table_schema

\* the table after DROP COLUMN
_handle_drop_column(action, table_schema) ==
    [table_schema EXCEPT
        !.columns = SelectSeq(@, LAMBDA c :
                        Upper(c.column_name) # Upper(action.name))]

\* the table after RENAME COLUMN
_handle_rename_column(action, table_schema) ==
    [table_schema EXCEPT
        !.columns = [i \in DOMAIN table_schema.columns |->
            IF Upper(table_schema.columns[i].column_name) = Upper(action.name)
              THEN [table_schema.columns[i] EXCEPT !.column_name = Upper(action.to)]
            ELSE table_schema.columns[i]]]

\* the table after ALTER COLUMN
_handle_modify_column(action, table_schema) ==
    [table_schema EXCEPT
        !.columns = [i \in DOMAIN table_schema.columns |->
            LET col == table_schema.columns[i]
            IN IF Upper(col.column_name) = Upper(action.name)
                 THEN [col EXCEPT
                         !.data_type = IF action.dtype # None
                                         THEN Upper(action.dtype) ELSE @,
                         !.is_nullable = IF action.allow_null # "None"
                                           THEN action.allow_null = "True" ELSE @]
               ELSE col]]

\* the table after the actions of an ALTER TABLE statement
RECURSIVE _handle_alter_actions(_, _, _, _)
_handle_alter_actions(actions, table_schema, schema_name, table_name) ==
    IF actions = <<>> THEN table_schema
    ELSE LET action == Head(actions)
             altered ==
                 IF action.node = "ColumnDef"
                   THEN _handle_add_column(action, table_schema, schema_name,
                                           table_name)
                 ELSE IF action.node = "Drop" /\ action.kind = "COLUMN"
                   THEN _handle_drop_column(action, table_schema)
                 ELSE IF action.node = "RenameColumn"
                   THEN _handle_rename_column(action, table_schema)
                 ELSE IF action.node = "AlterColumn"
                   THEN _handle_modify_column(action, table_schema)
                 ELSE table_schema
         IN _handle_alter_actions(Tail(actions), altered, schema_name, table_name)

_get_table_key(stmt) ==
    <<Upper(IF stmt.this.db = "" \/ Upper(stmt.this.db) = "NONE"
              THEN "PUBLIC" ELSE stmt.this.db),
      Upper(stmt.this.name)>>

\* the dict after an ALTER TABLE statement
_handle_alter_table(stmt, schemas) ==
    LET key == _get_table_key(stmt)
    IN IF key[1] = "" \/ key[2] = "" THEN schemas
       ELSE IF ~\E i \in DOMAIN schemas : schemas[i].key = key THEN schemas
       ELSE [i \in DOMAIN schemas |->
               IF schemas[i].key = key
                 THEN [schemas[i] EXCEPT
                         !.value = _handle_alter_actions(stmt.actions, @,
                                                         key[1], key[2])]
               ELSE schemas[i]]

\* lines 151-168: the dict after one statement
HandleStatement(stmt, schemas) ==
    IF stmt.node = "Create"
      THEN LET schema_obj == _handle_create_table(stmt)
           IN IF Truthy(schema_obj)
                THEN DictSet(schemas,
                             <<schema_obj.schema_name, schema_obj.table_name>>,
                             schema_obj)
              ELSE schemas
    ELSE IF stmt.node = "Alter" THEN _handle_alter_table(stmt, schemas)
    ELSE schemas

\* lines 151-168: the dict after the statements, in order
RECURSIVE HandleStatements(_, _)
HandleStatements(stmts, schemas) ==
    IF stmts = <<>> THEN schemas
    ELSE HandleStatements(Tail(stmts), HandleStatement(Head(stmts), schemas))

\* the whole call: the tables returned
parse_ddl_to_schema(ddl_sql, base_schemas) ==
    IF ddl_sql.invalid THEN <<>>
    ELSE DictValues(HandleStatements(ddl_sql.statements,
                                     SeedSchemas(<<>>, base_schemas)))

\* the statements of the DDL texts
Statements ==
    {Create(TableRef("", "", "t1"), <<ColumnDef("id", "INT", FALSE)>>),
     Create(TableRef("DB", "s1", "T1"),
            <<ColumnDef("id", "STRING", TRUE), ColumnDef("amt", None, FALSE)>>),
     Create(TableRef("", "", "T2"), <<>>),
     Alter(TableRef("", "", "T1"), <<ColumnDef("amt", "INT", FALSE)>>),
     Alter(TableRef("", "S1", "t1"), <<DropColumn("ID")>>),
     Alter(TableRef("", "", "T1"), <<RenameColumn("id", "amt")>>),
     Alter(TableRef("", "", "T1"),
           <<AlterColumn("ID", "STRING", "None"), AlterColumn("id", None, "False")>>),
     Alter(TableRef("", "", "T2"), <<DropColumn("id")>>),
     Alter(TableRef("", "", "t1"), <<ColumnDef("c", None, TRUE)>>),
     Alter(TableRef("DB", "s1", "T1"), <<ColumnDef("c", "INT", FALSE)>>),
     Command}

\* a DDL text: the statements sqlglot.parse returns, or a text it rejects
DdlTexts ==
    {[invalid |-> FALSE, statements |-> q] :
        q \in UNION {[1..n -> Statements] : n \in 0..MaxStmts}}
    \cup {[invalid |-> TRUE, statements |-> <<>>]}

\* the base tables given: none (None or []), or one table
BaseSchemaLists ==
    {<<>>,
     <<MakeTable("PUBLIC", "T1", <<[column_name |-> "ID", data_type |-> "INT",
                                    is_nullable |-> TRUE]>>)>>,
     <<MakeTable("S1", "T1", <<[column_name |-> "id", data_type |-> "STRING",
                                is_nullable |-> FALSE]>> \o AmtOnly)>>,
     <<MakeTable("", "T1", AmtOnly), MakeTable("S1", "T2", AmtOnly)>>}

\* the state of a parse_ddl_to_schema call that has not begun, with
\* arguments that play no part
DdlIdle ==
    /\ ddl_base = <<>>
    /\ ddl_text = [invalid |-> FALSE, statements |-> <<>>]
    /\ dpc = "start"
    /\ ddl_dict = <<>>
    /\ ddl_stmts = <<>>
    /\ ddl_result = <<>>

(***************************************************************************)
(* scia/input/resolver.py: resolve_input                                   *)
(***************************************************************************)

\* an input string is the list of the pieces between its '.' characters
\* (str.split('.')), with what os.path.exists says of the string itself and
\* of the string with '.json' or '.sql' appended
InputStr(parts, exists, exists_json, exists_sql) ==
    [parts |-> parts, exists |-> exists, exists_json |-> exists_json,
     exists_sql |-> exists_sql]

\* the pieces for which name.replace('_','').replace('-','').isalnum()
\* holds, quotes removed
ValidIdentifiers == {"PROD", "TABLE", "DB", "S", "T", "before", "after",
                     "mig", "data", "txt", "json", "JSON", "sql", "SQL",
                     "my-schema"}

\* resolver.py _is_valid_identifier
_is_valid_identifier(name) ==
    IF name = "" THEN FALSE ELSE name \in ValidIdentifiers

\* '.' in input_str
HasDot(input_str) == Len(input_str.parts) > 1

\* input_str.lower().endswith('.' + ext)
EndsWith(input_str, ext) ==
    /\ HasDot(input_str)
    /\ Lower(input_str.parts[Len(input_str.parts)]) = ext

\* resolver.py _detect_format
_detect_format(input_str) ==
    IF EndsWith(input_str, "json") THEN "json"
    ELSE IF EndsWith(input_str, "sql") THEN "sql"
    ELSE IF /\ HasDot(input_str)
            /\ input_str.parts[1] # ""
            /\ Len(input_str.parts) \in {2, 3}
            /\ \A i \in DOMAIN input_str.parts :
                   _is_valid_identifier(input_str.parts[i])
         THEN "database"
    ELSE IF \/ input_str.exists
            \/ input_str.exists_json
            \/ input_str.exists_sql
         THEN "json"
    ELSE IF HasDot(input_str) THEN "database"
    ELSE "json"

\* an InputResolutionError with its message
InputResolutionError(message) ==
    [raised |-> "InputResolutionError", message |-> message,
     value |-> NoneObj]

\* resolver.py _validate_input_exists: the error raised, or NoneObj
_validate_input_exists(input_str, input_format) ==
    IF input_format = "database" THEN NoneObj
    ELSE IF ~input_str.exists
         THEN InputResolutionError("Input file not found")
    ELSE NoneObj

\* the value resolve_input returns: the input type and the metadata
ResolveValue(input_type, before_format, after_format, warehouse) ==
    [raised |-> "none", message |-> "",
     value |-> [input_type |-> input_type,
                before_format |-> before_format,
                after_format |-> after_format,
                warehouse |-> IF TruthyStr(warehouse) THEN warehouse
                              ELSE None]]

\* the InputType resolve_input determines, or the error it raises there
InputTypeOf(before_format, after_format, warehouse) ==
    IF before_format = "json" /\ after_format = "json" THEN "json"
    ELSE IF before_format = "sql" \/ after_format = "sql" THEN "sql"
    ELSE IF before_format = "database" \/ after_format = "database"
         THEN IF ~TruthyStr(warehouse) THEN "MissingWarehouse"
              ELSE "database"
    ELSE "Unsupported"

\* resolve_input with the existence of the inputs validated before the
\* input type is determined
resolve_input_ValidateFirst(before_str, after_str, warehouse) ==
    LET before_format == _detect_format(before_str)
        after_format == _detect_format(after_str)
        input_type == InputTypeOf(before_format, after_format, warehouse)
        before_err == _validate_input_exists(before_str, before_format)
        after_err == _validate_input_exists(after_str, after_format)
    IN  IF before_err # NoneObj THEN before_err
        ELSE IF after_err # NoneObj THEN after_err
        ELSE IF input_type = "MissingWarehouse"
             THEN InputResolutionError(
                      "Database mode requires --warehouse parameter")
        ELSE IF input_type = "Unsupported"
             THEN InputResolutionError("Unsupported input combination")
        ELSE ResolveValue(input_type, before_format, after_format, warehouse)

\* resolver.py resolve_input
resolve_input(before_str, after_str, warehouse) ==
    LET before_format == _detect_format(before_str)
        after_format == _detect_format(after_str)
        input_type == InputTypeOf(before_format, after_format, warehouse)
        before_err == _validate_input_exists(before_str, before_format)
        after_err == _validate_input_exists(after_str, after_format)
    IN  IF input_type = "MissingWarehouse"
        THEN InputResolutionError(
                 "Database mode requires --warehouse parameter")
        ELSE IF input_type = "Unsupported"
             THEN InputResolutionError("Unsupported input combination")
        ELSE IF before_err # NoneObj THEN before_err
        ELSE IF after_err # NoneObj THEN after_err
        ELSE ResolveValue(input_type, before_format, after_format, warehouse)

\* the pieces of the input strings given
InputParts ==
    {<<"before", "json">>, <<"after", "JSON">>, <<"mig", "sql">>,
     <<"PROD", "TABLE">>, <<"DB", "S", "T">>, <<"DB", "S", "T", "c">>,
     <<"schemas">>, <<"", "hidden">>, <<"my file", "v2">>,
     <<"data", "txt">>}

\* the input strings given, in every state of the file system
InputStrs ==
    {InputStr(p, e, ej, es) :
        p \in InputParts, e \in BOOLEAN, ej \in BOOLEAN, es \in BOOLEAN}

\* the warehouse argument: absent, empty, or a warehouse type
WarehouseArgs == {None, "", "snowflake"}

\* the state of a resolve_input call that has not begun, with arguments
\* that play no part
ResolveIdle ==
    /\ res_before = InputStr(<<"before", "json">>, TRUE, FALSE, FALSE)
    /\ res_after = InputStr(<<"after", "JSON">>, TRUE, FALSE, FALSE)
    /\ res_warehouse = None
    /\ res_pc = "start"
    /\ res_outcome = NoneObj

\* the outcome recorded of an adapter before any of its methods is called
NoCall == [op |-> "none", connected |-> FALSE, raised |-> "none",
           value |-> <<>>]

\* the state of a SnowflakeAdapter just constructed: self.conn = None
SnowflakeIdle ==
    /\ sf_conn = NoneObj
    /\ sf_opened = 0
    /\ sf_closes = <<>>
    /\ sf_calls = 0
    /\ sf_last = NoCall

\* the state of a run_analyze call that has not begun
CliIdle ==
    /\ args = NoneObj
    /\ cli_pc = "start"
    /\ run_adapter = NoneObj
    /\ connect_calls = 0
    /\ close_calls = 0
    /\ cli_error = "none"
    /\ exit_code = NoneObj

\* the state of an _execute_and_output call that has not begun
ExecIdle ==
    /\ config = NoneObj
    /\ exec_adapter = NoneObj
    /\ epc = "start"
    /\ exit_status = NoneObj
    /\ downstream_calls = 0
    /\ cancel_requested = FALSE

\* the state of the command-line front end when none of it runs
FrontIdle == ResolveIdle /\ SnowflakeIdle /\ CliIdle /\ ExecIdle

(***************************************************************************)
(* scia/core/analyze.py: analyze() without a warehouse adapter             *)
(***************************************************************************)
Init ==
    /\ before \in Snapshots
    /\ after \in Snapshots
    /\ sql_signals \in SignalSets
    /\ hashseed \in HashSeeds
    /\ pc = "start"
    /\ changes = <<>>
    /\ rpc = "start"
    /\ rchanges = <<>>
    /\ findings = <<>>
    /\ error = "none"
    /\ raw_total = None
    /\ risk_score = None
    /\ classification = None
    /\ adapter = NoneObj
    /\ final_findings = <<>>
    /\ call_depth = MaxDepth
    /\ call_table = <<"">>
    /\ ipc = "start"
    /\ fetched_views = <<>>
    /\ bfs = DownstreamLocals(call_table)
    /\ fetch_calls = 0
    /\ dependents = <<>>
    /\ upc = "start"
    /\ upstream_deps = <<>>
    /\ fpc = "start"
    /\ downstream_fks = <<>>
    /\ DdlIdle
    /\ FrontIdle

\* 1. diff = diff_schemas(before_schema, after_schema)
DiffSchemas ==
    /\ pc = "start"
    /\ changes' = diff_schemas(before, after, hashseed)
    /\ pc' = "diffed"
    /\ UNCHANGED <<before, after, sql_signals, hashseed, rpc, rchanges,
                   findings, error, raw_total, risk_score, classification>>
    /\ UNCHANGED <<final_findings, impact_vars, ddl_vars, front_vars>>

\* 3. findings = apply_rules(diff, sql_signals); an exception leaves analyze()
ApplyRules ==
    /\ pc = "diffed"
    /\ LET result == apply_rules(changes, sql_signals)
       IN IF result.raised # "none"
            THEN /\ pc' = "rules_raised"
                 /\ error' = result.raised
                 /\ UNCHANGED findings
          ELSE /\ pc' = "ruled"
               /\ findings' = result.findings
               /\ UNCHANGED error
    /\ UNCHANGED <<before, after, sql_signals, hashseed, changes, rpc, rchanges,
                   raw_total, risk_score, classification>>
    /\ UNCHANGED <<final_findings, impact_vars, ddl_vars, front_vars>>

\* 5. assessment = RiskAssessment(final_findings), final_findings = findings
Aggregate ==
    /\ pc = "ruled"
    /\ LET assessment == RiskAssessment(findings)
       IN IF assessment.raised # "none"
            THEN /\ pc' = "risk_raised"
                 /\ error' = assessment.raised
                 /\ UNCHANGED <<raw_total, risk_score, classification>>
          ELSE /\ pc' = "done"
               /\ raw_total' = assessment.raw_total
               /\ risk_score' = assessment.risk_score
               /\ classification' = assessment.classification
               /\ UNCHANGED error
    /\ UNCHANGED <<before, after, sql_signals, hashseed, changes, rpc, rchanges,
                   findings>>
    /\ UNCHANGED <<final_findings, impact_vars, ddl_vars, front_vars>>

Next == DiffSchemas \/ ApplyRules \/ Aggregate

Spec == Init /\ [][Next]_vars

(***************************************************************************)
(* The differ called on a pair of snapshots and on the swapped pair.       *)
(***************************************************************************)
InitDiff ==
    /\ Init
    /\ sql_signals = NoneObj

DiffSchemasSwapped ==
    /\ rpc = "start"
    /\ rchanges' = diff_schemas(after, before, hashseed)
    /\ rpc' = "diffed"
    /\ UNCHANGED <<before, after, sql_signals, hashseed, pc, changes,
                   findings, error, raw_total, risk_score, classification>>
    /\ UNCHANGED <<final_findings, impact_vars, ddl_vars, front_vars>>

NextDiff == DiffSchemas \/ DiffSchemasSwapped

SpecDiff == InitDiff /\ [][NextDiff]_vars

(***************************************************************************)
(* scia/core/impact.py called on its own: analyze_downstream as the rounds *)
(* of its loop, then analyze_upstream and analyze_downstream_fks.          *)
(***************************************************************************)
InitImpact ==
    /\ before = <<>>
    /\ after = <<>>
    /\ sql_signals = NoneObj
    /\ hashseed = 0
    /\ pc = "start"
    /\ changes = <<>>
    /\ rpc = "start"
    /\ rchanges = <<>>
    /\ findings = <<>>
    /\ error = "none"
    /\ raw_total = None
    /\ risk_score = None
    /\ classification = None
    /\ final_findings = <<>>
    /\ adapter \in Adapters
    /\ call_depth \in 0..MaxDepth
    /\ call_table \in ChangedTables
    /\ ipc = "start"
    /\ fetched_views = <<>>
    /\ bfs = DownstreamLocals(call_table)
    /\ fetch_calls = 0
    /\ dependents = <<>>
    /\ upc = "start"
    /\ upstream_deps = <<>>
    /\ fpc = "start"
    /\ downstream_fks = <<>>
    /\ DdlIdle
    /\ FrontIdle

\* lines 27-39: views = fetch_views(database, schema); when it raises the
\* call returns []
FetchViews ==
    /\ ipc = "start"
    /\ fetch_calls' = fetch_calls + 1
    /\ LET fetched == fetch_views(adapter)
       IN IF fetched.raised # "none"
            THEN /\ ipc' = "returned"
                 /\ dependents' = <<>>
                 /\ UNCHANGED fetched_views
          ELSE /\ ipc' = "loop"
               /\ fetched_views' = fetched.value
               /\ UNCHANGED dependents
    /\ UNCHANGED <<ddl_vars, front_vars>>
    /\ UNCHANGED <<analyze_vars, final_findings, adapter, call_depth,
                   call_table, bfs, upc, upstream_deps, fpc, downstream_fks>>

\* lines 41-76: one round of the while loop; an exception of
\* parse_table_references leaves analyze_downstream
WhileQueueRound ==
    /\ ipc = "loop"
    /\ bfs.queue # <<>>
    /\ LET id == parse_identifier(call_table)
       IN \E st \in {PopQueue(bfs, fetched_views, call_depth, id.database,
                              id.schema, adapter)} :
            /\ bfs' = st
            /\ ipc' = IF st.raised # "none" THEN "raised" ELSE "loop"
    /\ UNCHANGED <<ddl_vars, front_vars>>
    /\ UNCHANGED <<analyze_vars, final_findings, adapter, call_depth,
                   call_table, fetched_views, fetch_calls, dependents,
                   upc, upstream_deps, fpc, downstream_fks>>

\* line 78: return all_dependents
ReturnDependents ==
    /\ ipc = "loop"
    /\ bfs.queue = <<>>
    /\ ipc' = "returned"
    /\ dependents' = bfs.all_dependents
    /\ UNCHANGED <<ddl_vars, front_vars>>
    /\ UNCHANGED <<analyze_vars, final_findings, adapter, call_depth,
                   call_table, fetched_views, bfs, fetch_calls,
                   upc, upstream_deps, fpc, downstream_fks>>

\* analyze_upstream(changed_table, warehouse_adapter)
AnalyzeUpstream ==
    /\ ipc = "returned"
    /\ upc = "start"
    /\ LET result == analyze_upstream(call_table, adapter)
       IN /\ upc' = IF result.raised # "none" THEN "raised" ELSE "returned"
          /\ upstream_deps' = result.value
    /\ UNCHANGED <<ddl_vars, front_vars>>
    /\ UNCHANGED <<analyze_vars, final_findings, adapter, call_depth,
                   call_table, ipc, fetched_views, bfs, fetch_calls, dependents,
                   fpc, downstream_fks>>

\* analyze_downstream_fks(changed_table, warehouse_adapter)
AnalyzeDownstreamFks ==
    /\ upc = "returned"
    /\ fpc = "start"
    /\ LET result == analyze_downstream_fks(call_table, adapter)
       IN /\ fpc' = IF result.raised # "none" THEN "raised" ELSE "returned"
          /\ downstream_fks' = result.value
    /\ UNCHANGED <<ddl_vars, front_vars>>
    /\ UNCHANGED <<analyze_vars, final_findings, adapter, call_depth,
                   call_table, ipc, fetched_views, bfs, fetch_calls, dependents,
                   upc, upstream_deps>>

NextImpact ==
    \/ FetchViews
    \/ WhileQueueRound
    \/ ReturnDependents
    \/ AnalyzeUpstream
    \/ AnalyzeDownstreamFks

SpecImpact == InitImpact /\ [][NextImpact]_vars

\* every call that can take a step takes it: a Python call runs to its end
SpecImpactFair == SpecImpact /\ WF_vars(NextImpact)

(***************************************************************************)
(* scia/core/analyze.py: analyze() with a warehouse adapter                *)
(***************************************************************************)
\* the fields the model ImpactDetail declares; the keyword
\* upstream_dependencies is none of them and is ignored
ImpactDetail(direct_dependents, transitive_dependents, affected_applications, estimated_blast_radius) ==
    [direct_dependents |-> direct_dependents,
     transitive_dependents |-> transitive_dependents,
     affected_applications |-> affected_applications,
     estimated_blast_radius |-> estimated_blast_radius]

\* EnrichedFinding(**finding.model_dump(exclude={"risk_score"}),
\* risk_score=..., impact_detail=...): the fields of Finding and
\* impact_detail; the model declares no field risk_score, so that keyword
\* is ignored
EnrichedFinding(finding, adjusted_score, impact_detail) ==
    [finding_type |-> finding.finding_type,
     severity |-> finding.severity,
     base_risk |-> finding.base_risk,
     evidence |-> finding.evidence,
     confidence |-> finding.confidence,
     description |-> finding.description,
     impact_detail |-> impact_detail]

\* finding.evidence.get(key)
EvidenceGet(finding, key) ==
    IF key \in DOMAIN finding.evidence THEN finding.evidence[key] ELSE None

\* the body of `for finding in findings`: the element appended to
\* final_findings, or the exception that leaves analyze()
EnrichFinding(finding, warehouse_adapter, max_dependency_depth) ==
    LET table_name == EvidenceGet(finding, "table")
        schema_name == EvidenceGet(finding, "schema")
        lookup_name == IF TruthyStr(schema_name) THEN <<schema_name, table_name>>
                       ELSE <<table_name>>
        downstream == analyze_downstream(lookup_name, warehouse_adapter,
                                         max_dependency_depth)
        upstream == analyze_upstream(lookup_name, warehouse_adapter)
        impact == ImpactDetail(downstream.value, <<>>, <<>>, Len(downstream.value))
        adjusted_score ==
            IF impact.estimated_blast_radius = 0 /\ finding.base_risk > 0
              THEN (finding.risk_score * 75) \div 100
            ELSE finding.risk_score
    IN IF ~TruthyStr(table_name) THEN Result(finding)
       ELSE IF downstream.raised # "none" THEN Raises(downstream.raised)
       ELSE IF upstream.raised # "none" THEN Raises(upstream.raised)
       ELSE IF "risk_score" \notin DOMAIN finding THEN Raises("AttributeError")
       ELSE Result(EnrichedFinding(finding, adjusted_score, impact))

\* the loop over the findings, final_findings being the list so far
RECURSIVE EnrichFindingsLoop(_, _, _, _)
EnrichFindingsLoop(final, fs, warehouse_adapter, max_dependency_depth) ==
    IF fs = <<>> THEN Result(final)
    ELSE LET enriched == EnrichFinding(Head(fs), warehouse_adapter,
                                       max_dependency_depth)
         IN IF enriched.raised # "none" THEN Raises(enriched.raised)
            ELSE EnrichFindingsLoop(Append(final, enriched.value), Tail(fs),
                                    warehouse_adapter, max_dependency_depth)

\* the adapters analyze() is given: one without views, one with a view on
\* T1, one whose metadata operations raise, one whose SQL parser raises
AnalyzeAdapters ==
    {WarehouseAdapter(FALSE, <<>>, FALSE, FALSE, <<>>),
     WarehouseAdapter(FALSE, <<[name |-> "v1", sql |-> <<<<"t1">>>>]>>,
                      FALSE, FALSE, <<ForeignKey("t1", "PARENT")>>),
     WarehouseAdapter(TRUE, <<>>, FALSE, TRUE, <<>>),
     WarehouseAdapter(FALSE, <<[name |-> "v1", sql |-> <<<<"t1">>>>]>>,
                      TRUE, FALSE, <<>>)}

InitAdapter ==
    /\ before \in Snapshots
    /\ after \in Snapshots
    /\ sql_signals \in SignalSets
    /\ hashseed \in HashSeeds
    /\ pc = "start"
    /\ changes = <<>>
    /\ rpc = "start"
    /\ rchanges = <<>>
    /\ findings = <<>>
    /\ error = "none"
    /\ raw_total = None
    /\ risk_score = None
    /\ classification = None
    /\ adapter \in {NoneObj} \cup AnalyzeAdapters
    /\ final_findings = <<>>
    /\ call_depth = MaxDepth
    /\ call_table = <<"">>
    /\ ipc = "start"
    /\ fetched_views = <<>>
    /\ bfs = DownstreamLocals(call_table)
    /\ fetch_calls = 0
    /\ dependents = <<>>
    /\ upc = "start"
    /\ upstream_deps = <<>>
    /\ fpc = "start"
    /\ downstream_fks = <<>>
    /\ DdlIdle
    /\ FrontIdle

\* 4. the enrichment of the findings when an adapter is given, else
\* final_findings = findings; an exception leaves analyze()
EnrichFindings ==
    /\ pc = "ruled"
    /\ LET result == IF Truthy(adapter)
                       THEN EnrichFindingsLoop(<<>>, findings, adapter, call_depth)
                     ELSE Result(findings)
       IN IF result.raised # "none"
            THEN /\ pc' = "enrich_raised"
                 /\ error' = result.raised
                 /\ UNCHANGED final_findings
          ELSE /\ pc' = "enriched"
               /\ final_findings' = result.value
               /\ UNCHANGED error
    /\ UNCHANGED <<before, after, sql_signals, hashseed, changes, rpc, rchanges,
                   findings, raw_total, risk_score, classification>>
    /\ UNCHANGED <<impact_vars, ddl_vars, front_vars>>

\* 5. assessment = RiskAssessment(final_findings)
AggregateFinal ==
    /\ pc = "enriched"
    /\ LET assessment == RiskAssessment(final_findings)
       IN IF assessment.raised # "none"
            THEN /\ pc' = "risk_raised"
                 /\ error' = assessment.raised
                 /\ UNCHANGED <<raw_total, risk_score, classification>>
          ELSE /\ pc' = "done"
               /\ raw_total' = assessment.raw_total
               /\ risk_score' = assessment.risk_score
               /\ classification' = assessment.classification
               /\ UNCHANGED error
    /\ UNCHANGED <<before, after, sql_signals, hashseed, changes, rpc, rchanges,
                   findings, final_findings>>
    /\ UNCHANGED <<impact_vars, ddl_vars, front_vars>>

NextAdapter == DiffSchemas \/ ApplyRules \/ EnrichFindings \/ AggregateFinal

SpecAdapter == InitAdapter /\ [][NextAdapter]_vars

(***************************************************************************)
(* parse_ddl_to_schema called on a DDL text and base tables.               *)
(***************************************************************************)
\* the state of analyze() before its first step, with no inputs
AnalyzeIdle ==
    /\ before = <<>>
    /\ after = <<>>
    /\ sql_signals = NoneObj
    /\ hashseed = 0
    /\ pc = "start"
    /\ changes = <<>>
    /\ rpc = "start"
    /\ rchanges = <<>>
    /\ findings = <<>>
    /\ error = "none"
    /\ raw_total = None
    /\ risk_score = None
    /\ classification = None
    /\ adapter = NoneObj
    /\ final_findings = <<>>

\* the state of the impact analysis calls that have not begun
ImpactIdle ==
    /\ call_depth = MaxDepth
    /\ call_table = <<"">>
    /\ ipc = "start"
    /\ fetched_views = <<>>
    /\ bfs = DownstreamLocals(call_table)
    /\ fetch_calls = 0
    /\ dependents = <<>>
    /\ upc = "start"
    /\ upstream_deps = <<>>
    /\ fpc = "start"
    /\ downstream_fks = <<>>

InitDdl ==
    /\ AnalyzeIdle
    /\ ImpactIdle
    /\ FrontIdle
    /\ ddl_base \in BaseSchemaLists
    /\ ddl_text \in DdlTexts
    /\ dpc = "start"
    /\ ddl_dict = <<>>
    /\ ddl_stmts = <<>>
    /\ ddl_result = <<>>

\* lines 135-141: schemas seeded with the base tables
SeedBaseSchemas ==
    /\ dpc = "start"
    /\ ddl_dict' = SeedSchemas(<<>>, ddl_base)
    /\ dpc' = "seeded"
    /\ UNCHANGED <<analyze_vars, final_findings, impact_vars, front_vars,
                   ddl_base, ddl_text, ddl_stmts, ddl_result>>

\* lines 143-149 and 172-174: statements = sqlglot.parse(...); when it
\* raises, the except clause returns []
ParseStatements ==
    /\ dpc = "seeded"
    /\ IF ddl_text.invalid
         THEN /\ dpc' = "returned"
              /\ ddl_result' = <<>>
              /\ UNCHANGED ddl_stmts
       ELSE /\ dpc' = "loop"
            /\ ddl_stmts' = ddl_text.statements
            /\ UNCHANGED ddl_result
    /\ UNCHANGED <<analyze_vars, final_findings, impact_vars, front_vars,
                   ddl_base, ddl_text, ddl_dict>>

\* lines 151-168: one round of `for stmt in statements`
HandleNextStatement ==
    /\ dpc = "loop"
    /\ ddl_stmts # <<>>
    /\ ddl_dict' = HandleStatement(Head(ddl_stmts), ddl_dict)
    /\ ddl_base' = WriteThrough(ddl_base, ddl_dict')
    /\ ddl_stmts' = Tail(ddl_stmts)
    /\ UNCHANGED <<analyze_vars, final_findings, impact_vars, front_vars,
                   ddl_text, dpc, ddl_result>>

\* line 170: return list(schemas.values())
ReturnSchemas ==
    /\ dpc = "loop"
    /\ ddl_stmts = <<>>
    /\ ddl_result' = DictValues(ddl_dict)
    /\ dpc' = "returned"
    /\ UNCHANGED <<analyze_vars, final_findings, impact_vars, front_vars,
                   ddl_base, ddl_text, ddl_dict, ddl_stmts>>

NextDdl ==
    \/ SeedBaseSchemas
    \/ ParseStatements
    \/ HandleNextStatement
    \/ ReturnSchemas

SpecDdl == InitDdl /\ [][NextDdl]_vars

(***************************************************************************)
(* What the properties say, stated on the inputs.                          *)
(***************************************************************************)
SchemasOf(tables) == {tables[i].schema_name : i \in DOMAIN tables}

TablesOf(tables, s) ==
    {tables[i].table_name : i \in {k \in DOMAIN tables : tables[k].schema_name = s}}

TheTable(tables, s, t) ==
    tables[CHOOSE i \in DOMAIN tables :
              tables[i].schema_name = s /\ tables[i].table_name = t]

ColumnNamesOf(table) == {table.columns[i].column_name : i \in DOMAIN table.columns}

TheColumn(table, n) ==
    table.columns[CHOOSE i \in DOMAIN table.columns : table.columns[i].column_name = n]

\* the positions of the changes that concern schema s
ChangesOfSchema(cs, s) == {i \in DOMAIN cs : cs[i].schema_name = s}

\* the positions of the changes that concern table s.t
ChangesOfTable(cs, s, t) ==
    {i \in DOMAIN cs : cs[i].schema_name = s /\ cs[i].table_name = t}

\* the positions of the changes that concern column n of table s.t
ChangesOfColumn(cs, s, t, n) ==
    {i \in DOMAIN cs : /\ cs[i].object_type = "COLUMN"
                       /\ cs[i].schema_name = s
                       /\ cs[i].table_name = t
                       /\ cs[i].column_name = n}

\* C1: a schema with tables on exactly one side yields exactly one change, a
\* SCHEMA REMOVED (ADDED) change, and nothing for its tables and columns; in
\* a schema of both sides, a table on exactly one side yields exactly one
\* change, a TABLE REMOVED (ADDED) change, and nothing for its columns.
C1_OneSidedObjects ==
    pc = "diffed" =>
      \A s \in SchemasOf(before) \cup SchemasOf(after) :
        IF (s \in SchemasOf(before)) # (s \in SchemasOf(after))
          THEN /\ Cardinality(ChangesOfSchema(changes, s)) = 1
               /\ \A i \in ChangesOfSchema(changes, s) :
                    /\ changes[i].object_type = "SCHEMA"
                    /\ changes[i].change_type =
                         (IF s \in SchemasOf(before) THEN "REMOVED" ELSE "ADDED")
        ELSE \A t \in TablesOf(before, s) \cup TablesOf(after, s) :
               (t \in TablesOf(before, s)) # (t \in TablesOf(after, s)) =>
                 /\ Cardinality(ChangesOfTable(changes, s, t)) = 1
                 /\ \A i \in ChangesOfTable(changes, s, t) :
                      /\ changes[i].object_type = "TABLE"
                      /\ changes[i].change_type =
                           (IF t \in TablesOf(before, s) THEN "REMOVED" ELSE "ADDED")

\* a removed schema with a table inside, next to a schema of both sides that
\* lost a table with a column
C1_Witness ==
    /\ pc = "diffed"
    /\ "S2" \in SchemasOf(before) /\ "S2" \notin SchemasOf(after)
    /\ "S1" \in SchemasOf(before) /\ "S1" \in SchemasOf(after)
    /\ "T2" \in TablesOf(before, "S1") /\ "T2" \notin TablesOf(after, "S1")
    /\ Len(changes) >= 2

\* C2: a column of both versions of a table of both sides yields at most one
\* change: TYPE_CHANGED iff the data types differ, NULLABILITY_CHANGED iff the
\* data types are equal and the nullabilities differ, nothing when both are equal.
C2_OneChangePerColumn ==
    pc = "diffed" =>
      \A s \in SchemasOf(before) \cap SchemasOf(after) :
        \A t \in TablesOf(before, s) \cap TablesOf(after, s) :
          \A n \in ColumnNamesOf(TheTable(before, s, t))
                   \cap ColumnNamesOf(TheTable(after, s, t)) :
            LET b == TheColumn(TheTable(before, s, t), n)
                a == TheColumn(TheTable(after, s, t), n)
                cs == ChangesOfColumn(changes, s, t, n)
            IN /\ Cardinality(cs) <= 1
               /\ (\E i \in cs : changes[i].change_type = "TYPE_CHANGED")
                    <=> (b.data_type # a.data_type)
               /\ (\E i \in cs : changes[i].change_type = "NULLABILITY_CHANGED")
                    <=> (b.data_type = a.data_type /\ b.is_nullable # a.is_nullable)
               /\ (b.data_type = a.data_type /\ b.is_nullable = a.is_nullable)
                    => cs = {}

\* a column whose data type and nullability both differ
C2_Witness ==
    /\ pc = "diffed"
    /\ \E i \in DOMAIN changes :
         /\ changes[i].change_type = "TYPE_CHANGED"
         /\ changes[i].before.is_nullable # changes[i].after.is_nullable

\* C3: the diff of a list of tables with itself is empty.
C3_DiffWithSelfIsEmpty ==
    (pc = "diffed" /\ before = after) => changes = <<>>

\* a snapshot of three tables, one of them with two columns, diffed with itself
C3_Witness ==
    /\ pc = "diffed"
    /\ before = after
    /\ Len(before) = 3
    /\ \E i \in DOMAIN before : Len(before[i].columns) = 2

\* the change that the swapped call reports for change c
Mirror(c) ==
    [c EXCEPT !.change_type = CASE c.change_type = "ADDED" -> "REMOVED"
                                [] c.change_type = "REMOVED" -> "ADDED"
                                [] OTHER -> c.change_type,
              !.before = c.after,
              !.after = c.before]

NoDuplicates(cs) == \A i, j \in DOMAIN cs : cs[i] = cs[j] => i = j

\* C4: diff_schemas(A, B) and diff_schemas(B, A) have the same number of
\* changes and correspond one to one: ADDED and REMOVED are exchanged,
\* TYPE_CHANGED and NULLABILITY_CHANGED exchange before and after.
C4_SwapSymmetry ==
    (pc = "diffed" /\ rpc = "diffed") =>
      /\ Len(changes) = Len(rchanges)
      /\ NoDuplicates(changes)
      /\ NoDuplicates(rchanges)
      /\ {Mirror(changes[i]) : i \in DOMAIN changes}
           = {rchanges[i] : i \in DOMAIN rchanges}

\* both calls made on a pair whose diff has an added column, a removed object
\* and a loosened nullability
C4_Witness ==
    /\ pc = "diffed" /\ rpc = "diffed"
    /\ \E i \in DOMAIN changes :
         changes[i].object_type = "COLUMN" /\ changes[i].change_type = "ADDED"
    /\ \E i \in DOMAIN changes : changes[i].change_type = "REMOVED"
    /\ \E i \in DOMAIN rchanges :
         /\ rchanges[i].change_type = "NULLABILITY_CHANGED"
         /\ rchanges[i].before.is_nullable

\* apply_rules has been called on the diff
RulesCalled == pc \in {"rules_raised", "ruled", "risk_raised", "done"}

\* apply_rules has returned its findings
RulesReturned == pc \in {"ruled", "risk_raised", "done"}

\* RiskAssessment(findings) has been called
AssessmentCalled == pc \in {"risk_raised", "done"}

\* the entry of the evidence of finding f under key, None when it has none
Ev(f, key) == IF key \in DOMAIN f.evidence THEN f.evidence[key] ELSE None

\* finding f is about the object of change c
Concerns(f, c) ==
    /\ Ev(f, "schema") = c.schema_name
    /\ Ev(f, "table") = c.table_name
    /\ Ev(f, "column") = c.column_name

\* the rule table without signals: the changes that trigger a finding, and
\* the severity and the base risk of that finding
Triggers(c) ==
    c.change_type = "NULLABILITY_CHANGED" =>
        (c.before.is_nullable /\ ~c.after.is_nullable)

TableSeverity(c) ==
    CASE c.change_type = "REMOVED" -> "HIGH"
      [] c.change_type = "ADDED" -> "LOW"
      [] OTHER -> "MEDIUM"

TableBaseRisk(c) ==
    CASE c.change_type = "ADDED" -> 0
      [] c.change_type = "REMOVED" /\ c.object_type = "SCHEMA" -> 100
      [] c.change_type = "REMOVED" /\ c.object_type = "TABLE" -> 90
      [] c.change_type = "REMOVED" /\ c.object_type = "COLUMN" -> 80
      [] c.change_type = "TYPE_CHANGED" -> 40
      [] c.change_type = "NULLABILITY_CHANGED" -> 50

\* C5: without signals apply_rules returns exactly one finding per triggering
\* change, with the severity and base risk of the rule table (SCHEMA REMOVED
\* HIGH/100, TABLE REMOVED HIGH/90, COLUMN REMOVED HIGH/80, ADDED LOW/0,
\* TYPE_CHANGED MEDIUM/40, nullable to not-null MEDIUM/50), and no
\* JOIN_KEY_CHANGED or GRAIN_CHANGE finding.
C5_RuleTableWithoutSignals ==
    (RulesCalled /\ ~SignalsGiven(sql_signals)) =>
      /\ RulesReturned
      /\ Len(findings) = Cardinality({i \in DOMAIN changes : Triggers(changes[i])})
      /\ \A i \in DOMAIN changes : Triggers(changes[i]) =>
           /\ Cardinality({j \in DOMAIN findings : Concerns(findings[j], changes[i])}) = 1
           /\ \A j \in DOMAIN findings : Concerns(findings[j], changes[i]) =>
                /\ findings[j].severity = TableSeverity(changes[i])
                /\ findings[j].base_risk = TableBaseRisk(changes[i])
      /\ \A j \in DOMAIN findings :
           findings[j].finding_type \notin {"JOIN_KEY_CHANGED", "GRAIN_CHANGE"}

\* the column names that occur in the join keys of some signal
JoinKeyNames(signals) ==
    UNION {{signals.values[i].join_keys[k][n] :
               k \in DOMAIN signals.values[i].join_keys, n \in 1..2} :
           i \in DOMAIN signals.values}

\* C6: with signals, a COLUMN change REMOVED or TYPE_CHANGED of a join key
\* gets a JOIN_KEY_CHANGED finding (HIGH, 90) next to its COLUMN_REMOVED or
\* COLUMN_TYPE_CHANGED finding; no other COLUMN change gets a
\* JOIN_KEY_CHANGED finding.
C6_JoinKeyFindingIsAdded ==
    (RulesCalled /\ SignalsGiven(sql_signals)) =>
      \A i \in DOMAIN changes : changes[i].object_type = "COLUMN" =>
        IF /\ changes[i].change_type \in {"REMOVED", "TYPE_CHANGED"}
           /\ Upper(changes[i].column_name) \in JoinKeyNames(sql_signals)
          THEN /\ \E j \in DOMAIN findings :
                    /\ Concerns(findings[j], changes[i])
                    /\ findings[j].finding_type = "JOIN_KEY_CHANGED"
                    /\ findings[j].severity = "HIGH"
                    /\ findings[j].base_risk = 90
               /\ \E j \in DOMAIN findings :
                    /\ Concerns(findings[j], changes[i])
                    /\ findings[j].finding_type =
                         (IF changes[i].change_type = "REMOVED"
                            THEN "COLUMN_REMOVED" ELSE "COLUMN_TYPE_CHANGED")
        ELSE ~\E j \in DOMAIN findings :
                 /\ Concerns(findings[j], changes[i])
                 /\ findings[j].finding_type = "JOIN_KEY_CHANGED"

\* C7: every finding that apply_rules returns has a base risk in the band of
\* its severity: HIGH at least 80, MEDIUM 40..79, LOW 0..39.
C7_SeverityBands ==
    RulesReturned =>
      \A j \in DOMAIN findings :
        CASE findings[j].severity = "HIGH" -> findings[j].base_risk >= 80
          [] findings[j].severity = "MEDIUM" ->
               findings[j].base_risk >= 40 /\ findings[j].base_risk <= 79
          [] findings[j].severity = "LOW" ->
               findings[j].base_risk >= 0 /\ findings[j].base_risk <= 39
          [] OTHER -> FALSE

\* apply_rules returned join-key, grain, removal and type findings at once
C7_Witness ==
    /\ pc = "ruled"
    /\ \E j \in DOMAIN findings : findings[j].finding_type = "JOIN_KEY_CHANGED"
    /\ \E j \in DOMAIN findings : findings[j].finding_type = "GRAIN_CHANGE"
    /\ \E j \in DOMAIN findings : findings[j].finding_type = "COLUMN_REMOVED"
    /\ \E j \in DOMAIN findings :
         findings[j].finding_type = "COLUMN_TYPE_CHANGED" /\ findings[j].base_risk = 50

\* the raw total the findings stand for: each finding counts with its
\* risk_score, or with its base_risk when it has no risk_score
RECURSIVE RawOf(_)
RawOf(fs) ==
    IF fs = <<>> THEN 0
    ELSE (IF "risk_score" \in DOMAIN Head(fs) THEN Head(fs).risk_score
          ELSE Head(fs).base_risk)
         + RawOf(Tail(fs))

\* C8: the assessment of the findings has the score
\* floor(100 * raw / (raw + 100)), which is 0 for raw = 0 and lies in 0..100.
C8_NormalizedScore ==
    AssessmentCalled =>
      /\ pc = "done"
      /\ risk_score = (100 * RawOf(findings)) \div (RawOf(findings) + 100)
      /\ risk_score >= 0 /\ risk_score <= 100
      /\ RawOf(findings) = 0 => risk_score = 0

\* C9: the raw total is the sum of the findings' risk scores, a finding
\* without risk_score counting with its base_risk, and computing it raises
\* no error.
C9_RawTotalFallsBackToBaseRisk ==
    AssessmentCalled =>
      /\ error = "none"
      /\ raw_total = RawOf(findings)

\* C10: the classification is LOW iff score < 15, MEDIUM iff 15 <= score < 40
\* or score >= 40 without a HIGH finding, HIGH iff score >= 40 with a HIGH
\* finding, score being the normalized score of the findings.
C10_Classification ==
    AssessmentCalled =>
      LET score == (100 * RawOf(findings)) \div (RawOf(findings) + 100)
          has_high == \E j \in DOMAIN findings : findings[j].severity = "HIGH"
      IN /\ (classification = "LOW") <=> (score < 15)
         /\ (classification = "MEDIUM") <=>
              ((score >= 15 /\ score < 40) \/ (score >= 40 /\ ~has_high))
         /\ (classification = "HIGH") <=> (score >= 40 /\ has_high)

(***************************************************************************)
(* The view graph of the impact analysis, stated on the fetched views.     *)
(***************************************************************************)
\* the name under which analyze_downstream tracks a view of the schema of
\* the changed table
TrackedName(view) ==
    LET id == parse_identifier(call_table)
    IN UpperName(IF id.database # "" /\ id.schema # ""
                   THEN <<id.database, id.schema, view.name>>
                 ELSE IF id.schema # "" THEN <<id.schema, view.name>>
                 ELSE <<view.name>>)

\* the view references the object tracked as obj: one of its table
\* references, upper-cased, is obj or the last component of obj
References(view, obj) ==
    \E i \in DOMAIN view.sql :
        \/ UpperName(view.sql[i]) = obj
        \/ UpperName(view.sql[i]) = <<obj[Len(obj)]>>

\* the objects at most k view references away from the changed table
RECURSIVE WithinHops(_)
WithinHops(k) ==
    IF k = 0 THEN {UpperName(call_table)}
    ELSE LET near == WithinHops(k - 1)
         IN near \cup {TrackedName(fetched_views[i]) : i \in
                         {j \in DOMAIN fetched_views :
                            \E obj \in near : References(fetched_views[j], obj)}}

\* the names of the views at most k view references away
ViewsWithinHops(k) ==
    {fetched_views[i].name : i \in
        {j \in DOMAIN fetched_views : TrackedName(fetched_views[j]) \in WithinHops(k)}}

DependentNames == {dependents[i].name : i \in DOMAIN dependents}

\* C11: analyze_downstream(T, adapter, max_depth = d) returns exactly the
\* views of T's schema at most d view references away from T, each as a
\* VIEW of that schema: none further away, and each one within d hops.
C11_DependentsWithinMaxDepth ==
    ipc = "returned" =>
      /\ DependentNames = ViewsWithinHops(call_depth)
      /\ \A i \in DOMAIN dependents :
           /\ dependents[i].object_type = "VIEW"
           /\ dependents[i].schema_name = parse_identifier(call_table).schema

\* a call with max_depth = 2 has returned the views one and two hops away
\* and left out a view three hops away
C11_Witness ==
    /\ ipc = "returned"
    /\ call_depth = 2
    /\ ViewsWithinHops(1) # {}
    /\ ViewsWithinHops(2) # ViewsWithinHops(1)
    /\ ViewsWithinHops(3) # ViewsWithinHops(2)
    /\ DependentNames = ViewsWithinHops(2)

\* C12: for every set of view definitions, cyclic ones included,
\* analyze_downstream ends, and when it returns it has called fetch_views
\* once and parse_table_references a bounded number of times, lists no view
\* twice, and returns the empty list when no view references the changed
\* table.
C12_TerminatesWithoutDuplicates ==
    /\ <>(ipc \in {"returned", "raised"})
    /\ [](ipc = "returned" =>
            /\ fetch_calls = 1
            /\ bfs.parse_calls <= Len(fetched_views) * (Len(fetched_views) + 1)
            /\ \A i, j \in DOMAIN dependents :
                 dependents[i].name = dependents[j].name => i = j
            /\ (\A i \in DOMAIN fetched_views :
                  ~References(fetched_views[i], UpperName(call_table)))
               => dependents = <<>>)

\* a call has returned two views that select from each other
C12_Witness ==
    /\ ipc = "returned"
    /\ \E i, j \in DOMAIN fetched_views :
         /\ i # j
         /\ References(fetched_views[i], TrackedName(fetched_views[j]))
         /\ References(fetched_views[j], TrackedName(fetched_views[i]))
         /\ {fetched_views[i].name, fetched_views[j].name} \subseteq DependentNames

\* C14: analyze_downstream, analyze_downstream_fks and analyze_upstream
\* never raise when fetch_views, parse_table_references or
\* fetch_foreign_keys raises: each returns the empty list.
C14_AdapterFailuresGiveEmptyLists ==
    /\ ipc # "raised"
    /\ upc # "raised"
    /\ fpc # "raised"
    /\ (ipc = "returned" /\ (adapter.views_raise \/ adapter.parse_raises))
         => dependents = <<>>
    /\ (upc = "returned" /\ adapter.fks_raise) => upstream_deps = <<>>
    /\ (fpc = "returned" /\ adapter.fks_raise) => downstream_fks = <<>>

(***************************************************************************)
(* The enrichment, stated on the findings of the rules.                    *)
(***************************************************************************)
\* analyze() was given an adapter and its enrichment loop has ended
EnrichmentEnded ==
    /\ adapter # NoneObj
    /\ pc \in {"enriched", "enrich_raised", "risk_raised", "done"}

\* the score of a finding: its risk_score, or its base_risk without one
ScoreOf(f) == IF "risk_score" \in DOMAIN f THEN f.risk_score ELSE f.base_risk

\* the downstream dependents of the table a finding names
DependentsOf(f) ==
    analyze_downstream(IF TruthyStr(Ev(f, "schema"))
                         THEN <<Ev(f, "schema"), Ev(f, "table")>>
                       ELSE <<Ev(f, "table")>>,
                       adapter, call_depth).value

\* the score the enrichment is to leave a finding with
EnrichedScore(f) ==
    IF /\ TruthyStr(Ev(f, "table"))
       /\ DependentsOf(f) = <<>>
       /\ f.base_risk > 0
      THEN (ScoreOf(f) * 75) \div 100
    ELSE ScoreOf(f)

\* C13: after the enrichment with an adapter the score of a finding is
\* floor(0.75 * r) when its evidence names a table, the downstream analysis
\* found no dependent and base_risk > 0, and r in every other case; a single
\* COLUMN_REMOVED on a table without dependents ends at 60, normalized score
\* 37, classification MEDIUM.
C13_EnrichmentDiscount ==
    EnrichmentEnded =>
      /\ Len(final_findings) = Len(findings)
      /\ \A i \in DOMAIN findings :
           ScoreOf(final_findings[i]) = EnrichedScore(findings[i])
      /\ (/\ AssessmentCalled
          /\ Len(findings) = 1
          /\ findings[1].finding_type = "COLUMN_REMOVED"
          /\ DependentsOf(findings[1]) = <<>>)
         => /\ ScoreOf(final_findings[1]) = 60
            /\ risk_score = 37
            /\ classification = "MEDIUM"

\* the outcome of analyze() on the same inputs without adapter
WithoutAdapter == RiskAssessment(findings)

\* C15: when the metadata operations of the adapter fail, the run goes on
\* without enrichment: the scores of the findings, the risk_score and the
\* classification are those of the same inputs analysed without adapter.
C15_AdapterFailureKeepsRisk ==
    (EnrichmentEnded /\ adapter.views_raise /\ adapter.fks_raise) =>
      /\ pc # "enrich_raised"
      /\ Len(final_findings) = Len(findings)
      /\ \A i \in DOMAIN findings :
           ScoreOf(final_findings[i]) = ScoreOf(findings[i])
      /\ AssessmentCalled =>
           /\ error = WithoutAdapter.raised
           /\ risk_score = WithoutAdapter.risk_score
           /\ classification = WithoutAdapter.classification

\* the position of the rule of a finding in ALL_RULES
RuleIndex(f) ==
    CASE f.finding_type = "SCHEMA_REMOVED" -> 1
      [] f.finding_type = "SCHEMA_ADDED" -> 2
      [] f.finding_type = "TABLE_REMOVED" -> 3
      [] f.finding_type = "TABLE_ADDED" -> 4
      [] f.finding_type = "COLUMN_REMOVED" -> 5
      [] f.finding_type = "COLUMN_ADDED" -> 6
      [] f.finding_type = "COLUMN_TYPE_CHANGED" -> 7
      [] f.finding_type = "COLUMN_NULLABILITY_CHANGED" -> 8
      [] f.finding_type = "JOIN_KEY_CHANGED" -> 9
      [] f.finding_type = "GRAIN_CHANGE" -> 10

\* the position in the diff of the change a finding is about
ChangeIndex(f) ==
    CHOOSE i \in DOMAIN changes : Concerns(f, changes[i])

\* the findings fs are in the order of the rules and, within a rule, in the
\* order of the changes of the diff
InRuleOrder(fs) ==
    \A i, j \in DOMAIN fs :
        i < j =>
          \/ RuleIndex(fs[i]) < RuleIndex(fs[j])
          \/ /\ RuleIndex(fs[i]) = RuleIndex(fs[j])
             /\ ChangeIndex(fs[i]) < ChangeIndex(fs[j])

\* C16: the findings analyze returns are ordered by rule and, within a
\* rule, by the order of the changes in the diff; with an adapter they are
\* as many as the rules made, in the same order.
C16_FindingsKeepRuleOrder ==
    RulesReturned =>
      /\ InRuleOrder(findings)
      /\ pc \notin {"enrich_raised", "risk_raised"}
      /\ pc \in {"enriched", "done"} =>
           /\ InRuleOrder(final_findings)
           /\ Len(final_findings) = Len(findings)
           /\ \A i \in DOMAIN findings :
                /\ final_findings[i].finding_type = findings[i].finding_type
                /\ final_findings[i].evidence = findings[i].evidence

(***************************************************************************)
(* The letter case of names, the order and the payloads of the changes.    *)
(***************************************************************************)
\* a snapshot with the letters of every schema, table and column name in
\* upper case
UpperSnapshot(tables) ==
    [i \in DOMAIN tables |->
        TableSchema(Upper(tables[i].schema_name), Upper(tables[i].table_name),
            [j \in DOMAIN tables[i].columns |->
                LET col == tables[i].columns[j]
                IN ColumnSchema(Upper(col.schema_name), Upper(col.table_name),
                                Upper(col.column_name), col.data_type,
                                col.is_nullable, col.ordinal_position)])]

\* upper-casing keeps the column names of every table of a snapshot apart
UpperKeepsNamesApart(tables) ==
    \A i \in DOMAIN tables :
        \A j, k \in DOMAIN tables[i].columns :
            Upper(tables[i].columns[j].column_name)
              = Upper(tables[i].columns[k].column_name) => j = k

\* a change without its payloads, its names in upper case
UpperChange(c) ==
    [object_type |-> c.object_type,
     schema_name |-> Upper(c.schema_name),
     table_name |-> Upper(c.table_name),
     column_name |-> Upper(c.column_name),
     change_type |-> c.change_type]

\* C17: diff_schemas compares names without regard to letter case: with
\* the letters of the names of one side changed to upper case it returns
\* the same changes.
C17_NamesIgnoreCase ==
    (pc = "diffed" /\ UpperKeepsNamesApart(after)) =>
      LET recased == diff_schemas(before, UpperSnapshot(after), hashseed)
      IN /\ Len(recased) = Len(changes)
         /\ {UpperChange(recased[i]) : i \in DOMAIN recased}
              = {UpperChange(changes[i]) : i \in DOMAIN changes}

\* the rank of a name, of None and of a change type in the sort order
SortRank(s) ==
    CASE s = None -> 0
      [] s = "ADDED" -> 1
      [] s = "NULLABILITY_CHANGED" -> 2
      [] s = "REMOVED" -> 3
      [] s = "TYPE_CHANGED" -> 4
      [] OTHER -> NameRank(s)

\* change c sorts before change d: by schema, table, column, change type
SortsBefore(c, d) ==
    LET kc == <<SortRank(c.schema_name), SortRank(c.table_name),
                SortRank(c.column_name), SortRank(c.change_type)>>
        kd == <<SortRank(d.schema_name), SortRank(d.table_name),
                SortRank(d.column_name), SortRank(d.change_type)>>
    IN \E n \in 1..4 :
          /\ \A m \in 1..(n - 1) : kc[m] = kd[m]
          /\ kc[n] < kd[n]

\* C18: the changes are returned ordered by schema, table, column and
\* change type, and every run on the same pair of inputs returns them in
\* the same order.
C18_ChangesSortedAndStable ==
    pc = "diffed" =>
      /\ \A i, j \in DOMAIN changes : i < j => SortsBefore(changes[i], changes[j])
      /\ \A seed \in HashSeeds : diff_schemas(before, after, seed) = changes

\* the payloads of the ADDED and REMOVED column changes
OneSidedPayloads ==
    \A i \in DOMAIN changes :
        LET c == changes[i]
        IN c.object_type = "COLUMN" =>
             /\ c.change_type = "ADDED" =>
                  /\ c.before = NoneObj
                  /\ c.after = TheColumn(TheTable(after, c.schema_name, c.table_name),
                                         c.column_name)
             /\ c.change_type = "REMOVED" =>
                  /\ c.after = NoneObj
                  /\ c.before = TheColumn(TheTable(before, c.schema_name, c.table_name),
                                          c.column_name)
             /\ c.change_type \in {"TYPE_CHANGED", "NULLABILITY_CHANGED"} =>
                  /\ c.before = TheColumn(TheTable(before, c.schema_name, c.table_name),
                                          c.column_name)
                  /\ c.after = TheColumn(TheTable(after, c.schema_name, c.table_name),
                                         c.column_name)

\* C19 as stated: a COLUMN change carries only `after` when ADDED, only
\* `before` when REMOVED and both when TYPE_CHANGED or NULLABILITY_CHANGED,
\* and in the latter two cases before and after differ in exactly one of
\* data_type and is_nullable.
C19_ExactlyOneAttributeDiffers ==
    pc = "diffed" =>
      /\ OneSidedPayloads
      /\ \A i \in DOMAIN changes :
           changes[i].change_type \in {"TYPE_CHANGED", "NULLABILITY_CHANGED"} =>
             (changes[i].before.data_type # changes[i].after.data_type)
               # (changes[i].before.is_nullable # changes[i].after.is_nullable)

\* C19, amended: a COLUMN change carries only `after` when ADDED, only
\* `before` when REMOVED and both when TYPE_CHANGED or NULLABILITY_CHANGED;
\* in a TYPE_CHANGED change before and after differ in data_type (and may
\* differ in is_nullable too), in a NULLABILITY_CHANGED change they differ
\* in is_nullable and agree on data_type.
C19_ChangePayloads ==
    pc = "diffed" =>
      /\ OneSidedPayloads
      /\ \A i \in DOMAIN changes :
           LET c == changes[i]
           IN /\ c.change_type = "TYPE_CHANGED" =>
                   c.before.data_type # c.after.data_type
              /\ c.change_type = "NULLABILITY_CHANGED" =>
                   /\ c.before.is_nullable # c.after.is_nullable
                   /\ c.before.data_type = c.after.data_type

\* the diff has an added column, a removed column and a changed type
C19_Witness ==
    /\ pc = "diffed"
    /\ \E i \in DOMAIN changes : changes[i].change_type = "ADDED"
                                   /\ changes[i].object_type = "COLUMN"
    /\ \E i \in DOMAIN changes : changes[i].change_type = "REMOVED"
                                   /\ changes[i].object_type = "COLUMN"
    /\ \E i \in DOMAIN changes : changes[i].change_type = "TYPE_CHANGED"

(***************************************************************************)
(* The DDL parser.                                                         *)
(***************************************************************************)
\* C20: parse_ddl_to_schema never raises, and when an exception occurs
\* while parsing it returns the tables accumulated up to that point, the
\* seeded base tables among them, instead of discarding them.
C20_ParseFailureKeepsTables ==
    /\ dpc # "raised"
    /\ dpc = "returned" => ddl_result = DictValues(ddl_dict)

\* the call has returned the tables of a text of two statements, CREATE
\* TABLE T (cols) and ALTER TABLE T ADD COLUMN c t, given no base tables
CreateThenAdd ==
    /\ dpc = "returned"
    /\ ddl_base = <<>>
    /\ ~ddl_text.invalid
    /\ Len(ddl_text.statements) = 2
    /\ ddl_text.statements[1].node = "Create"
    /\ ddl_text.statements[1].expressions # <<>>
    /\ ddl_text.statements[2].node = "Alter"
    /\ ddl_text.statements[2].this = ddl_text.statements[1].this
    /\ Len(ddl_text.statements[2].actions) = 1
    /\ ddl_text.statements[2].actions[1].node = "ColumnDef"

\* the text CREATE TABLE T (cols, c t) of the same table and columns
SingleCreate ==
    [invalid |-> FALSE,
     statements |->
        <<Create(ddl_text.statements[1].this,
                 ddl_text.statements[1].expressions
                    \o ddl_text.statements[2].actions)>>]

\* C21: CREATE TABLE T (cols) followed by ALTER TABLE T ADD COLUMN c t
\* gives a table equal in every attribute (the order, names, types,
\* nullability and ordinal positions of the columns, and the database,
\* schema and table fields of each column) to the table of the single
\* CREATE TABLE T (cols, c t), whatever the qualifiers of T.
C21_CreateThenAddEqualsSingleCreate ==
    CreateThenAdd => ddl_result = parse_ddl_to_schema(SingleCreate, <<>>)

\* C29: after any sequence of CREATE TABLE, ADD COLUMN, DROP COLUMN, RENAME
\* COLUMN and ALTER COLUMN statements the ordinal positions of the columns
\* of each table returned are at least 1 and pairwise distinct (a column
\* added by ADD COLUMN has an ordinal greater than that of every column
\* still in the table, so it repeats none).
C29_OrdinalsDistinct ==
    dpc = "returned" =>
      \A t \in DOMAIN ddl_result :
        \A i, j \in DOMAIN ddl_result[t].columns :
          /\ ddl_result[t].columns[i].ordinal_position >= 1
          /\ i # j => ddl_result[t].columns[i].ordinal_position
                        # ddl_result[t].columns[j].ordinal_position

\* C30: parse_ddl_to_schema never modifies the base tables it is given:
\* no step of a call changes the caller's base_schemas list, its tables or
\* their columns, so that when the result differs from the base tables the
\* diff of the base tables against the result is not empty.
C30_BaseSchemasUnchanged ==
    /\ [][ddl_base' = ddl_base]_vars
    /\ [](dpc = "returned" /\ ddl_result # ddl_base
            => \A seed \in HashSeeds :
                  diff_schemas(ddl_base, ddl_result, seed) # <<>>)

\* a call has returned a base table altered by an ALTER TABLE statement,
\* and the table of the caller still has the columns it was given
C30_Witness ==
    /\ dpc = "returned"
    /\ \E n \in DOMAIN ddl_text.statements :
          ddl_text.statements[n].node = "Alter"
    /\ \E i \in DOMAIN ddl_base : \E t \in DOMAIN ddl_result :
          /\ SeedKey(ddl_result[t]) = SeedKey(ddl_base[i])
          /\ ddl_result[t].columns # ddl_base[i].columns

(***************************************************************************)
(* resolve_input called on two input strings and a warehouse argument.     *)
(***************************************************************************)
InitResolve ==
    /\ AnalyzeIdle
    /\ ImpactIdle
    /\ DdlIdle
    /\ SnowflakeIdle
    /\ CliIdle
    /\ ExecIdle
    /\ res_before \in InputStrs
    /\ res_after \in InputStrs
    /\ res_warehouse \in WarehouseArgs
    /\ res_pc = "start"
    /\ res_outcome = NoneObj

\* resolve_input(before, after, warehouse) returns or raises
ResolveInput ==
    /\ res_pc = "start"
    /\ res_outcome' = resolve_input(res_before, res_after, res_warehouse)
    /\ res_pc' = "done"
    /\ UNCHANGED <<res_before, res_after, res_warehouse>>
    /\ UNCHANGED <<analyze_vars, final_findings, impact_vars, ddl_vars,
                   sf_vars, cli_vars, exec_vars>>

NextResolve == ResolveInput

SpecResolve == InitResolve /\ [][NextResolve]_vars

(***************************************************************************)
(* C22: the missing-warehouse error of resolve_input                       *)
(***************************************************************************)
\* the call raised the error that asks for --warehouse
MissingWarehouse ==
    /\ res_outcome.raised = "InputResolutionError"
    /\ res_outcome.message = "Database mode requires --warehouse parameter"

\* at least one of the two sides is classified as a database reference
SomeSideIsDatabase ==
    \/ _detect_format(res_before) = "database"
    \/ _detect_format(res_after) = "database"

\* at least one of the two sides is classified as a SQL file
SomeSideIsSql ==
    \/ _detect_format(res_before) = "sql"
    \/ _detect_format(res_after) = "sql"

\* C22 as stated: resolve_input fails with the missing-warehouse error if
\* and only if at least one side is classified as a database reference and
\* no warehouse is given, whatever the other side is (also when the other
\* side is a file that does not exist).
C22_MissingWarehouseIff ==
    res_pc = "done" =>
      (MissingWarehouse <=> (SomeSideIsDatabase /\ ~TruthyStr(res_warehouse)))

\* C22 amended: resolve_input fails with the missing-warehouse error if and
\* only if no side is classified as a SQL file, at least one side is
\* classified as a database reference and no warehouse is given; the error
\* takes precedence over the input-not-found error of the other side.
C22_MissingWarehouseUnlessSql ==
    res_pc = "done" =>
      (MissingWarehouse <=> (/\ ~SomeSideIsSql
                             /\ SomeSideIsDatabase
                             /\ ~TruthyStr(res_warehouse)))

\* a call without warehouse on a database reference and a JSON file that
\* does not exist has raised the missing-warehouse error
C22_Witness ==
    /\ res_pc = "done"
    /\ MissingWarehouse
    /\ _detect_format(res_before) = "database"
    /\ _detect_format(res_after) = "json"
    /\ ~res_after.exists

(***************************************************************************)
(* scia/warehouse/snowflake.py: a SnowflakeAdapter and the calls made on   *)
(* it, in any order.                                                       *)
(***************************************************************************)
\* the number of method calls made on the adapter
MaxCalls == 5

\* the number of connections snowflake.connector.connect can open
MaxConns == 2

\* the connection object snowflake.connector.connect returns
Connection(id) == [id |-> id]

\* SnowflakeAdapter.connect: self.conn is assigned when the connector
\* returns; its error is logged and raised again, self.conn staying
connect(conn, opened, connect_raises) ==
    IF connect_raises
      THEN [conn |-> conn, opened |-> opened, raised |-> "Error"]
    ELSE [conn |-> Connection(opened + 1), opened |-> opened + 1,
          raised |-> "none"]

\* SnowflakeAdapter.close with self.conn kept after the close
close_KeepsConn(conn, closes, close_raises) ==
    IF Truthy(conn)
      THEN [conn |-> conn,
            closes |-> [closes EXCEPT ![conn.id] = @ + 1],
            raised |-> "none"]
    ELSE [conn |-> conn, closes |-> closes, raised |-> "none"]

\* SnowflakeAdapter.close: self.conn.close() when there is a connection,
\* its exception logged, self.conn = None in the finally clause
close(conn, closes, close_raises) ==
    IF Truthy(conn)
      THEN [conn |-> NoneObj,
            closes |-> [closes EXCEPT ![conn.id] = @ + 1],
            raised |-> "none"]
    ELSE [conn |-> conn, closes |-> closes, raised |-> "none"]

\* what the cursor of a connection does with a query: the rows it returns,
\* the database the session resolves, or the exception it raises
Cursor(raised, database, rows) ==
    [raised |-> raised, database |-> database, rows |-> rows]

\* the rows of INFORMATION_SCHEMA.COLUMNS, of INFORMATION_SCHEMA.VIEWS and
\* of SHOW IMPORTED KEYS
Rows ==
    {<<>>,
     <<[table_name |-> "T1", column_name |-> "ID", definition |-> "",
        referenced_table |-> "PARENT"]>>,
     <<[table_name |-> "V1", column_name |-> "ID",
        definition |-> "select", referenced_table |-> "T1"]>>}

\* a query succeeds, raises a snowflake.connector error, or raises
\* another exception
Cursors ==
    {Cursor("none", db, rows) : db \in {"", "DB"}, rows \in Rows}
    \cup {Cursor("Error", "DB", <<>>), Cursor("RuntimeError", "DB", <<>>)}

\* the body shared by the three fetch methods: [] or {} without a
\* connection, after a snowflake.connector error and without a database
Fetch(conn, cursor, value) ==
    IF ~Truthy(conn) THEN Result(<<>>)
    ELSE IF cursor.raised = "Error" THEN Result(<<>>)
    ELSE IF cursor.raised # "none" THEN Raises(cursor.raised)
    ELSE IF cursor.database = "" THEN Result(<<>>)
    ELSE Result(value)

\* SnowflakeAdapter.fetch_schema: one table for each table name, with the
\* column of the row
snowflake_fetch_schema(conn, cursor) ==
    Fetch(conn, cursor,
          [i \in DOMAIN cursor.rows |->
              [table_name |-> cursor.rows[i].table_name,
               columns |-> <<cursor.rows[i].column_name>>]])

\* SnowflakeAdapter.fetch_views: the views whose definition is not empty
snowflake_fetch_views(conn, cursor) ==
    Fetch(conn, cursor,
          SelectSeq([i \in DOMAIN cursor.rows |->
                        [name |-> cursor.rows[i].table_name,
                         sql |-> cursor.rows[i].definition]],
                    LAMBDA v : v.sql # ""))

\* SnowflakeAdapter.fetch_foreign_keys
snowflake_fetch_foreign_keys(conn, cursor) ==
    Fetch(conn, cursor,
          [i \in DOMAIN cursor.rows |->
              [table_name |-> cursor.rows[i].table_name,
               referenced_table |-> cursor.rows[i].referenced_table]])

\* what is recorded of a call: the method, whether the adapter held a
\* connection when it was called, and the outcome
Call(op, conn, raised, value) ==
    [op |-> op, connected |-> Truthy(conn), raised |-> raised,
     value |-> value]

InitSnowflake ==
    /\ AnalyzeIdle
    /\ ImpactIdle
    /\ DdlIdle
    /\ ResolveIdle
    /\ CliIdle
    /\ ExecIdle
    /\ SnowflakeIdle

\* adapter.connect(config)
SnowflakeConnect ==
    /\ sf_calls < MaxCalls
    /\ \E connect_raises \in BOOLEAN :
          /\ connect_raises \/ sf_opened < MaxConns
          /\ LET r == connect(sf_conn, sf_opened, connect_raises)
             IN /\ sf_conn' = r.conn
                /\ sf_opened' = r.opened
                /\ sf_closes' = IF r.opened > sf_opened
                                  THEN Append(sf_closes, 0)
                                ELSE sf_closes
                /\ sf_last' = Call("connect", sf_conn, r.raised, <<>>)
    /\ sf_calls' = sf_calls + 1
    /\ UNCHANGED <<analyze_vars, final_findings, impact_vars, ddl_vars,
                   resolve_vars, cli_vars, exec_vars>>

\* adapter.close(), the close() of the connection returning or raising
SnowflakeClose ==
    /\ sf_calls < MaxCalls
    /\ \E close_raises \in BOOLEAN :
          LET r == close(sf_conn, sf_closes, close_raises)
          IN /\ sf_conn' = r.conn
             /\ sf_closes' = r.closes
             /\ sf_last' = Call("close", sf_conn, r.raised, <<>>)
    /\ sf_calls' = sf_calls + 1
    /\ UNCHANGED sf_opened
    /\ UNCHANGED <<analyze_vars, final_findings, impact_vars, ddl_vars,
                   resolve_vars, cli_vars, exec_vars>>

\* adapter.fetch_schema(database, schema)
SnowflakeFetchSchema ==
    /\ sf_calls < MaxCalls
    /\ \E cursor \in Cursors :
          LET r == snowflake_fetch_schema(sf_conn, cursor)
          IN sf_last' = Call("fetch_schema", sf_conn, r.raised, r.value)
    /\ sf_calls' = sf_calls + 1
    /\ UNCHANGED <<sf_conn, sf_opened, sf_closes>>
    /\ UNCHANGED <<analyze_vars, final_findings, impact_vars, ddl_vars,
                   resolve_vars, cli_vars, exec_vars>>

\* adapter.fetch_views(database, schema)
SnowflakeFetchViews ==
    /\ sf_calls < MaxCalls
    /\ \E cursor \in Cursors :
          LET r == snowflake_fetch_views(sf_conn, cursor)
          IN sf_last' = Call("fetch_views", sf_conn, r.raised, r.value)
    /\ sf_calls' = sf_calls + 1
    /\ UNCHANGED <<sf_conn, sf_opened, sf_closes>>
    /\ UNCHANGED <<analyze_vars, final_findings, impact_vars, ddl_vars,
                   resolve_vars, cli_vars, exec_vars>>

\* adapter.fetch_foreign_keys(database, schema)
SnowflakeFetchForeignKeys ==
    /\ sf_calls < MaxCalls
    /\ \E cursor \in Cursors :
          LET r == snowflake_fetch_foreign_keys(sf_conn, cursor)
          IN sf_last' = Call("fetch_foreign_keys", sf_conn, r.raised, r.value)
    /\ sf_calls' = sf_calls + 1
    /\ UNCHANGED <<sf_conn, sf_opened, sf_closes>>
    /\ UNCHANGED <<analyze_vars, final_findings, impact_vars, ddl_vars,
                   resolve_vars, cli_vars, exec_vars>>

NextSnowflake ==
    \/ SnowflakeConnect
    \/ SnowflakeClose
    \/ SnowflakeFetchSchema
    \/ SnowflakeFetchViews
    \/ SnowflakeFetchForeignKeys

SpecSnowflake == InitSnowflake /\ [][NextSnowflake]_vars

(***************************************************************************)
(* C25: close() is idempotent                                              *)
(***************************************************************************)
\* the fetch operations of the adapter
FetchOps == {"fetch_schema", "fetch_views", "fetch_foreign_keys"}

\* C25: close() can be called any number of times in any state of the
\* adapter (never connected, connected, already closed) without raising
\* and leaves the adapter without a connection; the close() of a
\* connection is called at most once; a fetch operation called on an
\* adapter without a connection returns an empty result and does not raise.
C25_CloseIsIdempotent ==
    /\ sf_last.op = "close" => sf_last.raised = "none" /\ sf_conn = NoneObj
    /\ \A i \in DOMAIN sf_closes : sf_closes[i] <= 1
    /\ sf_last.op \in FetchOps /\ ~sf_last.connected
          => sf_last.raised = "none" /\ sf_last.value = <<>>

\* close() has been called on an adapter that had been connected and
\* closed before
C25_Witness ==
    /\ sf_last.op = "close"
    /\ ~sf_last.connected
    /\ \E i \in DOMAIN sf_closes : sf_closes[i] = 1

(***************************************************************************)
(* scia/cli/main.py: _execute_and_output called on loaded schemas, an      *)
(* adapter and the analysis configuration.                                 *)
(***************************************************************************)
\* the number of analyze_downstream calls of the loop over the findings: one
\* for each finding with a table, up to the finding whose enrichment raises
RECURSIVE DownstreamCalls(_, _, _)
DownstreamCalls(fs, warehouse_adapter, max_dependency_depth) ==
    IF fs = <<>> THEN 0
    ELSE IF ~TruthyStr(EvidenceGet(Head(fs), "table"))
           THEN DownstreamCalls(Tail(fs), warehouse_adapter,
                                max_dependency_depth)
    ELSE IF EnrichFinding(Head(fs), warehouse_adapter,
                          max_dependency_depth).raised # "none"
           THEN 1
    ELSE 1 + DownstreamCalls(Tail(fs), warehouse_adapter,
                             max_dependency_depth)

\* what is recorded of an analyze() call
Analysis(raised, diff, fs, final, assessment, calls) ==
    [raised |-> raised, changes |-> diff, findings |-> fs,
     final_findings |-> final, assessment |-> assessment,
     downstream_calls |-> calls]

\* analyze.py analyze(): diff, rules, enrichment when an adapter is given,
\* RiskAssessment; the first exception leaves it
analyze(before_schema, after_schema, signals, warehouse_adapter, max_dependency_depth, seed) ==
    LET diff == diff_schemas(before_schema, after_schema, seed)
        rules == apply_rules(diff, signals)
        enriched == IF Truthy(warehouse_adapter)
                      THEN EnrichFindingsLoop(<<>>, rules.findings,
                                              warehouse_adapter,
                                              max_dependency_depth)
                    ELSE Result(rules.findings)
        calls == IF Truthy(warehouse_adapter)
                   THEN DownstreamCalls(rules.findings, warehouse_adapter,
                                        max_dependency_depth)
                 ELSE 0
        assessment == RiskAssessment(enriched.value)
    IN IF rules.raised # "none"
         THEN Analysis(rules.raised, diff, <<>>, <<>>, NoneObj, 0)
       ELSE IF enriched.raised # "none"
         THEN Analysis(enriched.raised, diff, rules.findings, <<>>, NoneObj,
                       calls)
       ELSE Analysis(assessment.raised, diff, rules.findings, enriched.value,
                     assessment, calls)

\* main.py _handle_exit_code: the code given to sys.exit, 0 when it returns
_handle_exit_code(fail_on, level) ==
    IF fail_on = "HIGH" /\ level = "HIGH" THEN 1
    ELSE IF fail_on = "MEDIUM" /\ level \in {"HIGH", "MEDIUM"} THEN 1
    ELSE IF fail_on = "LOW" /\ level \in {"HIGH", "MEDIUM", "LOW"} THEN 1
    ELSE 0

\* the analysis_config of run_analyze: the flags --no-upstream,
\* --no-downstream, --format and --fail-on, and --dependency-depth
Configs ==
    [include_up : BOOLEAN, include_down : BOOLEAN,
     output_format : {"json", "markdown"},
     fail_on : {"LOW", "MEDIUM", "HIGH"},
     dep_depth : {MaxDepth}]

\* the schemas loaded: none, a table, the table without its first column,
\* the table with that column nullable
ExecSnapshots ==
    {<<>>,
     <<MakeTable("S1", "T1", <<[column_name |-> "id", data_type |-> "INT",
                                is_nullable |-> FALSE]>> \o AmtOnly)>>,
     <<MakeTable("S1", "T1", AmtOnly)>>,
     <<MakeTable("S1", "T1", <<[column_name |-> "id", data_type |-> "INT",
                                is_nullable |-> TRUE]>> \o AmtOnly)>>}

\* the adapters given: none, one without views, one with a view on T1
ExecAdapters ==
    {NoneObj,
     WarehouseAdapter(FALSE, <<>>, FALSE, FALSE, <<>>),
     WarehouseAdapter(FALSE, <<[name |-> "v1", sql |-> <<<<"t1">>>>]>>,
                      FALSE, FALSE, <<ForeignKey("t1", "PARENT")>>)}

InitExecute ==
    /\ before \in ExecSnapshots
    /\ after \in ExecSnapshots
    /\ sql_signals = NoneObj
    /\ hashseed = 0
    /\ pc = "start"
    /\ changes = <<>>
    /\ rpc = "start"
    /\ rchanges = <<>>
    /\ findings = <<>>
    /\ error = "none"
    /\ raw_total = None
    /\ risk_score = None
    /\ classification = None
    /\ adapter = NoneObj
    /\ final_findings = <<>>
    /\ ImpactIdle
    /\ DdlIdle
    /\ ResolveIdle
    /\ SnowflakeIdle
    /\ CliIdle
    /\ config \in Configs
    /\ exec_adapter \in ExecAdapters
    /\ epc = "start"
    /\ exit_status = NoneObj
    /\ downstream_calls = 0
    /\ cancel_requested = FALSE

\* the environment asks for the analysis to be cancelled before
\* _execute_and_output awaits analyze(); nothing in the code reads it
RequestCancel ==
    /\ epc = "start"
    /\ ~cancel_requested
    /\ cancel_requested' = TRUE
    /\ UNCHANGED <<config, exec_adapter, epc, exit_status, downstream_calls>>
    /\ UNCHANGED <<analyze_vars, final_findings, impact_vars, ddl_vars,
                   resolve_vars, sf_vars, cli_vars>>

\* assessment = await analyze(...), the adapter passed when include_up or
\* include_down, else None; an exception leaves _execute_and_output
ExecuteAnalyze ==
    /\ epc = "start"
    /\ \E r \in {analyze(before, after, sql_signals,
                          IF config.include_up \/ config.include_down
                            THEN exec_adapter
                          ELSE NoneObj,
                          config.dep_depth, hashseed)} :
          /\ adapter' = IF config.include_up \/ config.include_down
                          THEN exec_adapter
                        ELSE NoneObj
          /\ changes' = r.changes
          /\ findings' = r.findings
          /\ final_findings' = r.final_findings
          /\ downstream_calls' = r.downstream_calls
          /\ IF r.raised # "none"
               THEN /\ error' = r.raised
                    /\ pc' = "raised"
                    /\ epc' = "raised"
                    /\ UNCHANGED <<raw_total, risk_score, classification>>
             ELSE /\ raw_total' = r.assessment.raw_total
                  /\ risk_score' = r.assessment.risk_score
                  /\ classification' = r.assessment.classification
                  /\ pc' = "done"
                  /\ epc' = "analyzed"
                  /\ UNCHANGED error
    /\ UNCHANGED <<before, after, sql_signals, hashseed, rpc, rchanges>>
    /\ UNCHANGED <<config, exec_adapter, exit_status, cancel_requested>>
    /\ UNCHANGED <<call_depth, call_table, ipc, fetched_views, bfs,
                   fetch_calls, dependents, upc, upstream_deps, fpc,
                   downstream_fks>>
    /\ UNCHANGED <<ddl_vars, resolve_vars, sf_vars, cli_vars>>

\* print(render_json(assessment)) or print(render_markdown(assessment)),
\* then _handle_exit_code: sys.exit(1), or the return to run_analyze
RenderAndHandleExitCode ==
    /\ epc = "analyzed"
    /\ LET code == _handle_exit_code(config.fail_on, classification)
       IN IF code # 0
            THEN /\ exit_status' = code
                 /\ epc' = "exited"
          ELSE /\ epc' = "returned"
               /\ UNCHANGED exit_status
    /\ UNCHANGED <<config, exec_adapter, downstream_calls, cancel_requested>>
    /\ UNCHANGED <<analyze_vars, final_findings, impact_vars, ddl_vars,
                   resolve_vars, sf_vars, cli_vars>>

NextExecute == RequestCancel \/ ExecuteAnalyze \/ RenderAndHandleExitCode

SpecExecute == InitExecute /\ [][NextExecute]_vars

(***************************************************************************)
(* C27, C28: cancellation and the --no-downstream flag                     *)
(***************************************************************************)
\* the analysis has an adapter operation to perform: analyze() was given an
\* adapter and a finding names a table
AdapterOperationDue ==
    /\ Truthy(adapter)
    /\ \E i \in DOMAIN findings : TruthyStr(EvidenceGet(findings[i], "table"))

\* C27: the orchestrator accepts a cancellation signal and checks it at
\* every suspension point: once cancellation has been requested, an
\* analysis that comes to an adapter operation performs none, ends with
\* Cancelled and returns no assessment.
C27_CancelledAtSuspensionPoint ==
    (cancel_requested /\ epc # "start" /\ AdapterOperationDue)
      => /\ error = "Cancelled"
         /\ downstream_calls = 0
         /\ classification = None

\* C28: with downstream analysis disabled (--no-downstream) and upstream
\* analysis enabled, analyze_downstream is invoked for no finding.
C28_NoDownstreamWhenDisabled ==
    (epc # "start" /\ ~config.include_down /\ config.include_up)
      => downstream_calls = 0

(***************************************************************************)
(* scia/cli/main.py: run_analyze called on the parsed arguments.           *)
(***************************************************************************)
\* a call of resolve_input with the positional arguments argv: Python
\* raises TypeError when more are given than the three parameters
\* before, after and warehouse
CallResolveInput(argv) ==
    IF Len(argv) > 3
      THEN [raised |-> "TypeError", message |-> "positional arguments",
            value |-> NoneObj]
    ELSE resolve_input(argv[1], argv[2],
                       IF Len(argv) = 3 THEN argv[3] ELSE None)

\* the arguments run_analyze passes at main.py line 51:
\* args.before, args.after, warehouse_type, dialect
ResolveInputArgs(namespace) ==
    <<namespace.before, namespace.after, namespace.warehouse,
      namespace.dialect>>

\* the inputs of a run: JSON files that exist or not, a SQL file, a
\* database reference
CliInputs ==
    {InputStr(<<"before", "json">>, TRUE, FALSE, FALSE),
     InputStr(<<"after", "JSON">>, TRUE, FALSE, FALSE),
     InputStr(<<"after", "JSON">>, FALSE, FALSE, FALSE),
     InputStr(<<"mig", "sql">>, TRUE, FALSE, FALSE),
     InputStr(<<"PROD", "TABLE">>, FALSE, FALSE, FALSE)}

\* the argparse namespaces of the analyze command: --warehouse absent,
\* snowflake, or postgres (planned, not implemented)
Namespaces ==
    [before : CliInputs, after : CliInputs,
     warehouse : {None, "snowflake", "postgres"},
     dialect : {"snowflake"},
     fail_on : {"LOW", "MEDIUM", "HIGH"}]

\* a run_analyze call: `before` and `after` are the schemas the two inputs
\* hold, which the run would load
InitCli ==
    /\ before \in ExecSnapshots
    /\ after \in ExecSnapshots
    /\ sql_signals = NoneObj
    /\ hashseed = 0
    /\ pc = "start"
    /\ changes = <<>>
    /\ rpc = "start"
    /\ rchanges = <<>>
    /\ findings = <<>>
    /\ error = "none"
    /\ raw_total = None
    /\ risk_score = None
    /\ classification = None
    /\ adapter = NoneObj
    /\ final_findings = <<>>
    /\ ImpactIdle
    /\ DdlIdle
    /\ ResolveIdle
    /\ SnowflakeIdle
    /\ ExecIdle
    /\ args \in Namespaces
    /\ cli_pc = "start"
    /\ run_adapter = NoneObj
    /\ connect_calls = 0
    /\ close_calls = 0
    /\ cli_error = "none"
    /\ exit_code = NoneObj

\* warehouse_adapter = None, then step 1: input_type, metadata =
\* resolve_input(args.before, args.after, warehouse_type, dialect); an
\* exception goes to the except clause
RunResolveInput ==
    /\ cli_pc = "start"
    /\ LET r == CallResolveInput(ResolveInputArgs(args))
       IN IF r.raised # "none"
            THEN /\ cli_error' = r.raised
                 /\ cli_pc' = "except"
          ELSE /\ cli_pc' = "resolved"
               /\ UNCHANGED cli_error
    /\ UNCHANGED <<args, run_adapter, connect_calls, close_calls, exit_code>>
    /\ UNCHANGED <<analyze_vars, final_findings, impact_vars, ddl_vars,
                   resolve_vars, sf_vars, exec_vars>>

\* except Exception as e: print the error to stderr, sys.exit(1)
ExceptException ==
    /\ cli_pc = "except"
    /\ exit_code' = 1
    /\ cli_pc' = "finally"
    /\ UNCHANGED <<args, run_adapter, connect_calls, close_calls, cli_error>>
    /\ UNCHANGED <<analyze_vars, final_findings, impact_vars, ddl_vars,
                   resolve_vars, sf_vars, exec_vars>>

\* finally: if warehouse_adapter: warehouse_adapter.close(); then
\* SystemExit leaves run_analyze
Finally ==
    /\ cli_pc = "finally"
    /\ close_calls' = IF Truthy(run_adapter) THEN close_calls + 1
                      ELSE close_calls
    /\ cli_pc' = "exited"
    /\ UNCHANGED <<args, run_adapter, connect_calls, cli_error, exit_code>>
    /\ UNCHANGED <<analyze_vars, final_findings, impact_vars, ddl_vars,
                   resolve_vars, sf_vars, exec_vars>>

NextCli == RunResolveInput \/ ExceptException \/ Finally

SpecCli == InitCli /\ [][NextCli]_vars

(***************************************************************************)
(* C23, C24, C26: the adapter and the exit code of a run                   *)
(***************************************************************************)
\* what resolve_input gives for the inputs and the warehouse of the run
Resolved == resolve_input(args.before, args.after, args.warehouse)

\* the inputs of the run resolve: no file is missing, no warehouse is
\* missing
InputsResolve == Resolved.raised = "none"

\* the mode of a run whose inputs resolve
Mode == Resolved.value.input_type

\* the analysis of the schemas the inputs hold, without enrichment
Expected == analyze(before, after, NoneObj, NoneObj, MaxDepth, hashseed)

\* the run meets a fatal error: an input does not resolve, database mode
\* has no adapter, or the analysis raises
FatalError ==
    \/ ~InputsResolve
    \/ Mode = "database" /\ args.warehouse # "snowflake"
    \/ Expected.raised # "none"

\* C23: when the adapter cannot be constructed (--warehouse postgres), a
\* run in JSON or SQL mode completes the analysis without enrichment and
\* its exit code depends on the classification only; a run in database
\* mode exits with code 1.
C23_AdapterFailureIsNotFatal ==
    (cli_pc = "exited" /\ args.warehouse = "postgres" /\ InputsResolve)
      => IF Mode \in {"json", "sql"}
           THEN Expected.raised = "none"
                  => /\ cli_error = "none"
                     /\ exit_code = _handle_exit_code(
                            args.fail_on, Expected.assessment.classification)
         ELSE exit_code = 1

\* C24: a run given a warehouse connects the adapter before it loads a
\* schema, and an adapter that was connected is closed exactly once before
\* the process exits.
C24_AdapterConnectedAndClosedOnce ==
    (cli_pc = "exited" /\ args.warehouse = "snowflake" /\ InputsResolve)
      => /\ connect_calls = 1
         /\ Truthy(run_adapter) => close_calls = 1

\* C26: a run exits with code 1 if and only if a fatal error occurred or
\* the classification is at or above --fail-on; otherwise it exits with
\* code 0.
C26_ExitCode ==
    cli_pc = "exited"
      => /\ exit_code \in {0, 1}
         /\ exit_code = 1
              <=> \/ FatalError
                  \/ _handle_exit_code(
                         args.fail_on, Expected.assessment.classification) = 1

====
